---- MODULE Spec2Model ----
(***************************************************************************)
(* A model of the mokshiri scraper collection: the article scrapers and    *)
(* their upsert into the `articles` table, the GPT rewriter, the image     *)
(* batch job, the Instagram publishing scripts and the translation batch   *)
(* job.  Each subsystem has its own specification over the shared          *)
(* variables; a specification leaves the other subsystems' variables at    *)
(* their initial values.                                                   *)
(***************************************************************************)
EXTENDS Integers, Sequences, FiniteSets, TLC

VARIABLES
    articles,    \* the committed rows of the `articles` table
    nextId,      \* the table's AUTO_INCREMENT counter
    dbpc,        \* per scraper process: its position inside db_upsert
    dbrec,       \* per scraper process: the record passed to db_upsert
    txn,         \* per scraper process: the statement executed and not yet committed
    calls,       \* per scraper process: number of db_upsert calls started
    upsertOk,    \* links for which some db_upsert call returned True
    checkedOut,  \* per scraper process: connections taken from its pool
    scraper,     \* which scraper script is running
    dryRun,      \* the --dry-run flag (kheralds, kpopmap)
    haveRewriter,\* HAVE_REWRITER: the rewriter module could be imported
    art,         \* the site: for every article link, what its page holds
    spc,         \* the scraper's position in its category loop
    listing,     \* number of the listing page being processed (0: none)
    pagesScraped,\* pages_scraped / page
    idx,         \* index of the next candidate of the listing page
    items,       \* records collected by scrape_category_today
    visited,     \* links whose article page was fetched in this run
    upsertLog,   \* every db_upsert call executed in this run
    cat,         \* number of the category (listing URL) being scraped
    site,        \* the site: its categories and the pages' next links
    loads,       \* the listing-page loads of this run, in order
    results,     \* the results list the run hands to json.dump
    snapshot,    \* the scraper's OUTPUT_JSON file
    dbConfig,    \* which of DB_USER, DB_PASS, DB_HOST, DB_NAME are set
    pool,        \* the scraper's connection pool has been created
    iscript,     \* which publishing script runs: insta_post or insta_post_test
    ipc,         \* the publishing script's position
    iart,        \* index of the article being published
    imedia,      \* the media item being posted: image or video
    uploadedKeys,\* insta_post_test: the uploaded_keys list
    creationId,  \* the id the last container-create returned (0: None)
    apiLog,      \* the Graph API requests issued, in order
    ifailed,     \* articles with a failed create or publish after an upload
    bucket,      \* keys of the objects in the R2 bucket
    bpc,         \* image batch job: its position in run_batch / process_row
    pending,     \* image batch job: the ids fetch_pending_rows returned
    bidx,        \* image batch job: index of the row being processed
    attempt,     \* image batch job: number of the download attempt
    steps,       \* image batch job: per row id, the steps executed so far
    lpc,         \* translation job: its position in process_articles
    fetched,     \* translation job: the rows fetch_articles returned
    lidx,        \* translation job: index of the article being translated
    lbatch,      \* translation job: index of the next language batch
    lmarked,     \* translation job: ids of the rows its UPDATE published
    lscript,     \* which translation job runs
    apiKey,      \* translation job: LECTO_API_KEY is set
    lreturned,   \* translation job: <<row id, lang>> the service returned texts for
    lscraped,    \* ids of the rows a scraper inserted while the job ran
    shop,        \* which shop script runs: cuelinks or alistore_shop
    shpc,        \* the shop script's position
    token,       \* alistore_shop: the Admitad token is not None
    products,    \* the products of the run, in order (unique / filtered)
    pidx,        \* index of the product being processed
    enriched,    \* cuelinks: the enriched list
    written,     \* the products written out: saved files / offer upserts
    dlFailed,    \* ids of the products whose deeplink generation failed
    jpc,         \* JSON merge: its position in the merge block
    outputJson,  \* JSON merge: the file OUTPUT_JSON
    priorJson,   \* JSON merge: OUTPUT_JSON as the previous run left it
    backups,     \* JSON merge: the files OUTPUT_JSON.broken.<ts>
    existing,    \* JSON merge: the value loaded from the prior file
    results_for_json, \* JSON merge: the records extracted in this run
    ppc,         \* page extraction: before or after the extraction
    psite,       \* page extraction: the scraper whose code extracts
    html,        \* page extraction: the markup of the page
    queued,      \* page extraction: the candidates of a listing page
    image        \* page extraction: the image of an article page

dbVars == <<nextId, dbpc, dbrec, txn, calls, upsertOk, checkedOut>>

scraperVars == <<scraper, dryRun, haveRewriter, art, spc, listing,
                 pagesScraped, idx, items, visited, upsertLog, cat, site,
                 loads, results, snapshot, dbConfig, pool>>

instaVars == <<iscript, ipc, iart, imedia, uploadedKeys, creationId,
               apiLog, ifailed>>

batchVars == <<bpc, pending, bidx, attempt, steps>>

lectoVars == <<lpc, fetched, lidx, lbatch, lmarked, lscript, apiKey,
               lreturned, lscraped>>

shopVars == <<shop, shpc, token, products, pidx, enriched, written,
              dlFailed>>

jsonVars == <<jpc, outputJson, priorJson, backups, existing,
              results_for_json>>

pageVars == <<ppc, psite, html, queued, image>>

\* What neither a scraper nor its db_upsert touches.
otherVars == <<instaVars, bucket, batchVars, lectoVars, shopVars, jsonVars,
               pageVars>>

vars == <<articles, dbVars, scraperVars, instaVars, bucket, batchVars,
          lectoVars, shopVars, jsonVars, pageVars>>

(***************************************************************************)
(* The articles table and the upsert statement                             *)
(***************************************************************************)

\* Two scraper processes may run against the same database.
Procs == {"p1", "p2"}

\* db_upsert calls one process makes in the runs that are explored.
MaxCalls == 2

\* The link column keeps at most this many characters of the URL.
LINK_MAX == 1000

NoRec == [none |-> TRUE]

\* A URL is its first LINK_MAX characters (head) and what follows (tail).
Url(h, t) == [head |-> h, tail |-> t]

DbLinks == {Url("a", ""), Url("b", ""), Url("a", "x")}

\* record.get("link")[:1000]
TruncLink(l) == Url(l.head, "")

\* SQL NULL / Python None in a text column.
NULL == "NULL"

\* A nullable number or time: NONE, or Some(v).
NONE == <<>>

Some(v) == <<v>>

\* record.get(key, default)
Get(record, key, default) ==
    IF key \in DOMAIN record THEN record[key] ELSE default

\* The tuple of statement parameters db_upsert builds from a record.
Params(record) ==
    [category            |-> Get(record, "category", NULL),
     title               |-> Get(record, "title", NULL),
     link                |-> TruncLink(record.link),
     summary             |-> Get(record, "summary", NULL),
     image_url           |-> Get(record, "image_url", NULL),
     author              |-> Get(record, "author", NULL),
     published           |-> Get(record, "published", NULL),
     views               |-> Get(record, "views", 0),
     is_featured         |-> Get(record, "is_featured", 0),
     featured_rank       |-> Get(record, "featured_rank", NONE),
     last_metrics_update |-> Get(record, "last_metrics_update", NONE),
     trend_score         |-> Get(record, "trend_score", 0),
     uuid                |-> Get(record, "uuid_bytes", NULL)]

\* The row an INSERT of the parameters creates at time now; lang,
\* is_published and image_name are not in the column list and take the
\* column defaults, created_at is NOW().
NewRow(params, id, now) ==
    [id                  |-> id,
     link                |-> params.link,
     lang                |-> "en",
     category            |-> params.category,
     title               |-> params.title,
     summary             |-> params.summary,
     image_url           |-> params.image_url,
     image_name          |-> "",
     is_published        |-> 0,
     author              |-> params.author,
     published           |-> params.published,
     created_at          |-> now,
     views               |-> params.views,
     is_featured         |-> params.is_featured,
     featured_rank       |-> params.featured_rank,
     last_metrics_update |-> params.last_metrics_update,
     trend_score         |-> params.trend_score,
     uuid                |-> params.uuid]

\* The rows of a table that conflict with the parameters on the unique key.
DuplicateKey(tbl, params) == {r \in tbl : r.link = params.link}

\* An update clause that assigns every column of the statement's column
\* list.
UpdateAllColumns(r, params, now) ==
    [NewRow(params, r.id, now) EXCEPT !.lang = r.lang,
                                      !.image_name = r.image_name,
                                      !.is_published = r.is_published,
                                      !.last_metrics_update = Some(now)]

\* ON DUPLICATE KEY UPDATE title = VALUES(title), summary = VALUES(summary),
\* image_url = VALUES(image_url), author = VALUES(author),
\* published = VALUES(published), last_metrics_update = NOW()
OnDuplicateKeyUpdate(r, params, now) ==
    [r EXCEPT !.title = params.title,
              !.summary = params.summary,
              !.image_url = params.image_url,
              !.author = params.author,
              !.published = params.published,
              !.last_metrics_update = Some(now)]

\* An INSERT without the ON DUPLICATE KEY UPDATE clause on a table without
\* the unique key.
InsertOnly(tbl, params, id, now) == tbl \cup {NewRow(params, id, now)}

\* INSERT INTO articles (...) VALUES (...) ON DUPLICATE KEY UPDATE ...
UPSERT_SQL(tbl, params, id, now) ==
    IF DuplicateKey(tbl, params) = {}
    THEN tbl \cup {NewRow(params, id, now)}
    ELSE {IF r \in DuplicateKey(tbl, params)
          THEN OnDuplicateKeyUpdate(r, params, now)
          ELSE r : r \in tbl}

\* NOW() of a statement: the server's statements are totally ordered, and
\* a statement's time is read as its place in that order.
NOW(counter) == counter

RowsOf(tbl, l) == {r \in tbl : r.link = TruncLink(l)}

(***************************************************************************)
(* db_upsert, step by step, for concurrent scraper processes               *)
(***************************************************************************)

\* The records the runs pass to db_upsert: two sightings of an article
\* differ in everything a scraper extracts or generates.
Sighting(n, link) ==
    [category |-> IF n = 1 THEN "kdrama" ELSE "kpop_celeb",
     title |-> IF n = 1 THEN "t1" ELSE "t2",
     link |-> link,
     summary |-> IF n = 1 THEN "s1" ELSE "s2",
     image_url |-> IF n = 1 THEN "u1" ELSE "u2",
     author |-> IF n = 1 THEN "by1" ELSE "by2",
     published |-> IF n = 1 THEN "d1" ELSE "d2",
     views |-> 0, is_featured |-> 0, featured_rank |-> NONE,
     last_metrics_update |-> NONE, trend_score |-> 0,
     uuid_bytes |-> IF n = 1 THEN "uuid1" ELSE "uuid2"]

DbRecords == {Sighting(n, link) : n \in {1, 2}, link \in DbLinks}

\* A row of an earlier run whose engagement columns the site has changed
\* since.
SeenRow ==
    [NewRow(Params(Sighting(1, Url("b", ""))), 1, NOW(1))
     EXCEPT !.views = 7, !.is_featured = 1, !.featured_rank = Some(2),
            !.trend_score = 3]

InitTable ==
    /\ articles = {}
    /\ nextId = 1

\* The table of the upsert runs: empty, or holding a row of an earlier run.
InitSeenTable ==
    \/ InitTable
    \/ articles = {SeenRow} /\ nextId = 2

InitDbProcs ==
    /\ dbpc = [p \in Procs |-> "idle"]
    /\ dbrec = [p \in Procs |-> NoRec]
    /\ txn = [p \in Procs |-> NoRec]
    /\ calls = [p \in Procs |-> 0]
    /\ upsertOk = {}
    /\ checkedOut = [p \in Procs |-> 0]

\* No scraper loop is modelled: only its db_upsert calls are.
ScraperIdle ==
    /\ scraper = "none"
    /\ dryRun = FALSE
    /\ haveRewriter = FALSE
    /\ art = <<>>
    /\ spc = "done"
    /\ listing = 0
    /\ pagesScraped = 0
    /\ idx = 0
    /\ items = <<>>
    /\ visited = {}
    /\ upsertLog = {}
    /\ cat = 0
    /\ site = <<>>
    /\ loads = <<>>
    /\ results = <<>>
    /\ snapshot = [kind |-> "absent", records |-> <<>>]
    /\ dbConfig = {}
    /\ pool = FALSE

\* No publishing script runs.
InstaIdle ==
    /\ iscript = "none"
    /\ ipc = "exit"
    /\ iart = 0
    /\ imedia = "image"
    /\ uploadedKeys = <<>>
    /\ creationId = 0
    /\ apiLog = <<>>
    /\ ifailed = {}

\* No image batch job runs.
BatchIdle ==
    /\ bpc = "done"
    /\ pending = <<>>
    /\ bidx = 0
    /\ attempt = 0
    /\ steps = <<>>

\* No translation job runs.
LectoIdle ==
    /\ lpc = "done"
    /\ fetched = <<>>
    /\ lidx = 0
    /\ lbatch = 0
    /\ lmarked = {}
    /\ lscript = "none"
    /\ apiKey = FALSE
    /\ lreturned = {}
    /\ lscraped = {}

\* No shop script runs.
ShopIdle ==
    /\ shop = "none"
    /\ shpc = "done"
    /\ token = FALSE
    /\ products = <<>>
    /\ pidx = 0
    /\ enriched = <<>>
    /\ written = <<>>
    /\ dlFailed = {}

\* No page is being extracted from.
PageIdle ==
    /\ ppc = "done"
    /\ psite = "none"
    /\ html = <<>>
    /\ queued = <<>>
    /\ image = ""

\* No JSON file is merged.
JsonIdle ==
    /\ jpc = "done"
    /\ outputJson = [kind |-> "absent", records |-> <<>>]
    /\ priorJson = outputJson
    /\ backups = {}
    /\ existing = [list |-> TRUE, items |-> <<>>]
    /\ results_for_json = <<>>

InitBucket ==
    /\ bucket = {}

\* Another process holds the lock on the unique-key entry of a link.
LockedByOther(p, link) ==
    \E q \in Procs \ {p} :
        IF txn[q] = NoRec THEN FALSE ELSE txn[q].link = link

\* How a finished db_upsert call was left.
Exits == {"returned_true", "returned_false", "raised"}

\* db_pool.get_connection(): one more connection of the pool is in use.
Acquire(n) == n + 1

\* A finally clause that does not close the connection.
KeepConnection(n) == n

\* finally: if conn: conn.close() gives the connection back to the pool.
Release(n) == n - 1

\* A scraper run reaches db_upsert(record).
DbCall(p, record) ==
    /\ dbpc[p] \in {"idle"} \cup Exits
    /\ calls[p] < MaxCalls
    /\ dbpc' = [dbpc EXCEPT ![p] = "get_connection"]
    /\ dbrec' = [dbrec EXCEPT ![p] = record]
    /\ calls' = [calls EXCEPT ![p] = @ + 1]
    /\ UNCHANGED <<articles, nextId, txn, upsertOk, checkedOut, scraperVars,
                   otherVars>>

\* db_pool.get_connection() succeeds.
GetConnection(p) ==
    /\ dbpc[p] = "get_connection"
    /\ dbpc' = [dbpc EXCEPT ![p] = "execute"]
    /\ checkedOut' = [checkedOut EXCEPT ![p] = Acquire(@)]
    /\ UNCHANGED <<articles, nextId, dbrec, txn, calls, upsertOk, scraperVars,
                   otherVars>>

\* db_pool.get_connection() raises: conn is None and nothing is closed.
\* db_upsert returns False; in kheralds and kpopmap its except clause
\* formats params, which is not bound yet, and the call is left by that
\* exception.
GetConnectionFail(p, exit) ==
    /\ dbpc[p] = "get_connection"
    /\ exit \in {"returned_false", "raised"}
    /\ dbpc' = [dbpc EXCEPT ![p] = exit]
    /\ dbrec' = [dbrec EXCEPT ![p] = NoRec]
    /\ UNCHANGED <<articles, nextId, txn, calls, upsertOk, checkedOut,
                   scraperVars, otherVars>>

\* cur.execute(UPSERT_SQL, params): the statement takes the lock on the
\* unique-key entry, so it waits while another transaction holds it.
Execute(p) ==
    /\ dbpc[p] = "execute"
    /\ ~LockedByOther(p, Params(dbrec[p]).link)
    /\ txn' = [txn EXCEPT ![p] = Params(dbrec[p])]
    /\ dbpc' = [dbpc EXCEPT ![p] = "commit"]
    /\ UNCHANGED <<articles, nextId, dbrec, calls, upsertOk, checkedOut,
                   scraperVars, otherVars>>

\* cur.execute raises (lock wait timeout, lost connection, bad value):
\* rollback, return False, close.
ExecuteFail(p) ==
    /\ dbpc[p] = "execute"
    /\ dbpc' = [dbpc EXCEPT ![p] = "returned_false"]
    /\ dbrec' = [dbrec EXCEPT ![p] = NoRec]
    /\ checkedOut' = [checkedOut EXCEPT ![p] = Release(@)]
    /\ UNCHANGED <<articles, nextId, txn, calls, upsertOk, scraperVars,
                   otherVars>>

\* conn.commit() succeeds: the statement's effect becomes visible,
\* db_upsert returns True and the connection is closed.
Commit(p) ==
    /\ dbpc[p] = "commit"
    /\ articles' = UPSERT_SQL(articles, txn[p], nextId, NOW(nextId))
    /\ nextId' = nextId + 1
    /\ upsertOk' = upsertOk \cup {dbrec[p].link}
    /\ txn' = [txn EXCEPT ![p] = NoRec]
    /\ dbpc' = [dbpc EXCEPT ![p] = "returned_true"]
    /\ dbrec' = [dbrec EXCEPT ![p] = NoRec]
    /\ checkedOut' = [checkedOut EXCEPT ![p] = Release(@)]
    /\ UNCHANGED <<calls, scraperVars, otherVars>>

\* conn.commit() raises: rollback, return False, close.
CommitFail(p) ==
    /\ dbpc[p] = "commit"
    /\ UNCHANGED articles
    /\ nextId' = nextId + 1
    /\ txn' = [txn EXCEPT ![p] = NoRec]
    /\ dbpc' = [dbpc EXCEPT ![p] = "returned_false"]
    /\ dbrec' = [dbrec EXCEPT ![p] = NoRec]
    /\ checkedOut' = [checkedOut EXCEPT ![p] = Release(@)]
    /\ UNCHANGED <<calls, upsertOk, scraperVars, otherVars>>

NextDb ==
    \/ \E p \in Procs, record \in DbRecords : DbCall(p, record)
    \/ \E p \in Procs : GetConnection(p)
    \/ \E p \in Procs, exit \in Exits : GetConnectionFail(p, exit)
    \/ \E p \in Procs : Execute(p)
    \/ \E p \in Procs : ExecuteFail(p)
    \/ \E p \in Procs : Commit(p)
    \/ \E p \in Procs : CommitFail(p)

InitDb ==
    /\ InitSeenTable /\ InitDbProcs /\ ScraperIdle
    /\ InstaIdle /\ InitBucket /\ BatchIdle /\ LectoIdle /\ ShopIdle /\ JsonIdle
    /\ PageIdle

SpecDb == InitDb /\ [][NextDb]_vars

\* C1: the table never holds two rows for one link, and it holds exactly
\* one row for every link for which an upsert succeeded, whatever the
\* interleaving of the scraper processes and however often a link recurs.
C1_OneRowPerLink ==
    /\ \A l \in DbLinks : Cardinality(RowsOf(articles, l)) <= 1
    /\ \A l \in upsertOk : Cardinality(RowsOf(articles, l)) = 1

\* Both processes have upserted the same link successfully, with different
\* titles, and a second link is stored as well.
C1_Witness ==
    /\ calls["p1"] >= 1 /\ calls["p2"] >= 1
    /\ nextId >= 4
    /\ Url("a", "") \in upsertOk /\ Url("a", "x") \in upsertOk
    /\ Url("b", "") \in upsertOk
    /\ Cardinality(articles) = 2

\* The columns an upsert of a stored link leaves alone.
SameKeptColumns(r, r2) ==
    /\ r2.id = r.id /\ r2.link = r.link /\ r2.lang = r.lang
    /\ r2.category = r.category
    /\ r2.created_at = r.created_at
    /\ r2.views = r.views
    /\ r2.is_featured = r.is_featured
    /\ r2.featured_rank = r.featured_rank
    /\ r2.trend_score = r.trend_score
    /\ r2.uuid = r.uuid
    /\ r2.image_name = r.image_name
    /\ r2.is_published = r.is_published

\* C12: in every step every stored row keeps its id, link, category,
\* created_at, views, is_featured, featured_rank, trend_score and uuid; a
\* row changes only in the commit of an upsert of its own link, and then
\* only in title, summary, image_url, author, published and
\* last_metrics_update; an upsert of a stored link adds no row.
C12_UpsertFrame ==
    [][/\ \A r \in articles :
             \E r2 \in articles' :
                 /\ SameKeptColumns(r, r2)
                 /\ r2 # r =>
                        \E p \in Procs :
                            /\ dbpc[p] = "commit" /\ dbpc'[p] \in Exits
                            /\ txn[p].link = r.link
                            /\ r2.title = txn[p].title
                            /\ r2.summary = txn[p].summary
                            /\ r2.image_url = txn[p].image_url
                            /\ r2.author = txn[p].author
                            /\ r2.published = txn[p].published
       /\ \A p \in Procs :
             (/\ dbpc[p] = "commit" /\ dbpc'[p] \in Exits
              /\ DuplicateKey(articles, txn[p]) # {})
                 => Cardinality(articles') = Cardinality(articles)]_vars

\* The row of the earlier run has been upserted again by a sighting with
\* another category, title and uuid: its mutable columns are the new ones,
\* its category, creation time, uuid and engagement columns are the old.
C12_Witness ==
    \E r \in articles :
        /\ r.link = Url("b", "")
        /\ r.title = "t2" /\ r.author = "by2" /\ r.published = "d2"
        /\ r.last_metrics_update # NONE
        /\ r.category = "kdrama" /\ r.uuid = "uuid1" /\ r.created_at = 1
        /\ r.views = 7 /\ r.is_featured = 1

Blank == " "

RECURSIVE LStrip(_)
LStrip(str) ==
    IF str # <<>> /\ Head(str) = Blank THEN LStrip(Tail(str)) ELSE str

RECURSIVE RStrip(_)
RStrip(str) ==
    IF str # <<>> /\ str[Len(str)] = Blank
    THEN RStrip(SubSeq(str, 1, Len(str) - 1))
    ELSE str

\* str.strip()
Strip(str) == RStrip(LStrip(str))

\* " ".join(lines)
RECURSIVE Join(_)
Join(lines) ==
    IF lines = <<>> THEN <<>>
    ELSE IF Len(lines) = 1 THEN lines[1]
    ELSE lines[1] \o <<Blank>> \o Join(Tail(lines))

\* A value of a key of the JSON object in the model's reply.
JAbsent == [t |-> "absent", s |-> <<>>]
JNull == [t |-> "null", s |-> <<>>]
JStr(str) == [t |-> "str", s |-> str]

\* What the chat-completion call does: it raises, or it returns a text.
\* A text either holds a JSON object between its first "{" and its last
\* "}" (json), or it does not (text); lines are the text's lines.
RaiseResp == [kind |-> "raise", header |-> JAbsent, summary |-> JAbsent, lines |-> <<>>]
JsonResp(h, b) == [kind |-> "json", header |-> h, summary |-> b, lines |-> <<>>]
TextResp(ls) == [kind |-> "text", header |-> JAbsent, summary |-> JAbsent, lines |-> ls]

RewriteResponses ==
    {RaiseResp,
     JsonResp(JStr(<<"H">>), JStr(<<"S">>)),
     JsonResp(JAbsent, JStr(<<"S", Blank>>)),
     JsonResp(JNull, JStr(<<"S">>)),
     JsonResp(JStr(<<Blank>>), JStr(<<>>)),
     TextResp(<<>>),
     TextResp(<< <<"Sorry">> >>),
     TextResp(<< <<"Sorry">>, <<"I">>, <<"cannot">> >>)}

\* data.get(key, default)
JGet(v, default) == IF v.t = "absent" THEN default ELSE v.s

\* rewrite_with_gpt_expanded(title, summary), given what the API call does.
rewrite_with_gpt_expanded(title, summary, resp) ==
    IF resp.kind = "raise"
    THEN [header |-> title, summary |-> summary]
    ELSE IF resp.kind = "json"
    THEN IF resp.header.t = "null" \/ resp.summary.t = "null"
         THEN [header |-> title, summary |-> summary]
         ELSE [header |-> Strip(JGet(resp.header, title)),
               summary |-> Strip(JGet(resp.summary, summary))]
    ELSE [header |-> IF resp.lines # <<>> THEN Strip(resp.lines[1]) ELSE title,
          summary |-> IF Len(resp.lines) > 1
                      THEN Strip(Join(Tail(resp.lines)))
                      ELSE summary]

\* rew.get("header") or title
OrElse(value, default) == IF value # <<>> THEN value ELSE default

\* How a reply relates to the expected JSON object.
ResponseClass(resp) ==
    CASE resp.kind = "raise" -> "raised"
      [] resp.kind = "text"  -> "unparsable"
      [] OTHER               -> "parsed"

(***************************************************************************)
(* The nine scrapers: what differs between them                            *)
(***************************************************************************)

Scrapers ==
    {"kdramastars", "kheralds", "kpopmap", "soomi", "knews", "kareboo",
     "kbizoom", "koreatech", "thepicktool"}

\* Scrapers built on requests: scrape_category_today collects records and
\* main() upserts them after the category has been scraped.
RequestsScrapers == {"kbizoom", "koreatech", "thepicktool"}

\* Scrapers that load listing page 1..MAX_PAGES by number.
PageNumberScrapers == {"knews", "kareboo"}

\* Scrapers that leave the candidate loop at the first article not of today.
BreakOnStale == {"kheralds", "kbizoom"}

\* Scrapers that only convert the publish date and do not compare it.
NoFreshnessCheck == {"knews", "kareboo"}

\* Scrapers that import the rewriter inside try/except.
OptionalRewriter == {"kdramastars", "kheralds", "kpopmap"}

\* Scrapers with a --dry-run flag.
DryRunScrapers == {"kheralds", "kpopmap"}

KDS_MIN_BODY == 60
KH_MIN_BODY == 50
KPM_MIN_BODY == 50
SOOMI_MIN_BODY == 50
KNEWS_MIN_BODY == 40
KAREBOO_MIN_BODY == 50
KTD_MIN_BODY == 80
PICK_MIN_BODY == 80
\* kbizoom's only length threshold is the one inside extract_article_content.
KBIZ_MIN_TEXT == 40

KDS_MAX_PAGES == 2
KH_MAX_PAGES == 2
KPM_MAX_PAGES == 2
SOOMI_MAX_PAGES == 2
KNEWS_MAX_PAGES == 2
KAREBOO_MAX_PAGES == 3
KBIZ_MAX_PAGES == 2
KTD_MAX_PAGES == 3
PICK_MAX_PAGES == 4

MAX_PAGES(s) ==
    CASE s = "kdramastars" -> KDS_MAX_PAGES
      [] s = "kheralds"    -> KH_MAX_PAGES
      [] s = "kpopmap"     -> KPM_MAX_PAGES
      [] s = "soomi"       -> SOOMI_MAX_PAGES
      [] s = "knews"       -> KNEWS_MAX_PAGES
      [] s = "kareboo"     -> KAREBOO_MAX_PAGES
      [] s = "kbizoom"     -> KBIZ_MAX_PAGES
      [] s = "koreatech"   -> KTD_MAX_PAGES
      [] OTHER             -> PICK_MAX_PAGES

\* The length the scraper's candidate loop compares the body with.
MinBodyLen(s) ==
    CASE s = "kdramastars" -> KDS_MIN_BODY
      [] s = "kheralds"    -> KH_MIN_BODY
      [] s = "kpopmap"     -> KPM_MIN_BODY
      [] s = "soomi"       -> SOOMI_MIN_BODY
      [] s = "knews"       -> KNEWS_MIN_BODY
      [] s = "kareboo"     -> KAREBOO_MIN_BODY
      [] s = "koreatech"   -> KTD_MIN_BODY
      [] s = "thepicktool" -> PICK_MIN_BODY
      [] OTHER             -> 0

\* if not body or len(body) < N: continue   (kbizoom: if not summary)
BodyTooShort(s, len) == len = 0 \/ len < MinBodyLen(s)

(***************************************************************************)
(* Article pages and what the extractors make of them                      *)
(***************************************************************************)

\* The text length a selector branch must exceed to be returned.
MIN_NODE_TEXT == 40

\* A page's body: the length of the text under the first matching selector
\* node (0: no node) and of the page's first paragraphs (0: no <p>).
PageBodies ==
    {[node |-> 0, paras |-> 0], [node |-> 10, paras |-> 10],
     [node |-> 45, paras |-> 45], [node |-> 10, paras |-> 90]}

\* extract_main_text / extract_article_content: the length of its result.
ExtractBody(body) ==
    IF body.node > MIN_NODE_TEXT THEN body.node ELSE body.paras

\* A page's publish time: none found, or an instant named by the calendar
\* day it falls on in UTC and in the configured time zone.
PageDates == {"none", "utcY_locY", "utcY_locT", "utcT_locT"}

\* A date check that lets every article through.
NeverNoDate(dt) == FALSE

\* if not dt
NoDate(dt) == dt = "none"

\* dt.astimezone(TIMEZONE).date(), naive values read as UTC first.
LocalDate(dt) ==
    CASE dt = "utcY_locY" -> "yesterday"
      [] dt = "utcY_locT" -> "today"
      [] dt = "utcT_locT" -> "today"
      [] OTHER            -> "unknown"

\* local_dt.date() != datetime.now(TIMEZONE).date()
NotToday(dt) == LocalDate(dt) # "today"

ArticleLinks == {Url("a", ""), Url("b", "")}

\* Listing pages the site has for the category.
SitePages == 2

\* The article links a listing page shows, in document order.
Candidates(p) ==
    IF p < 1 \/ p > SitePages THEN <<>>
    ELSE IF p % 2 = 1 THEN <<Url("a", ""), Url("b", "")>>
    ELSE <<Url("b", "")>>

\* A site: the number of its categories and, for every listing page, the
\* page its "next" link (rel=next, "Older Posts") leads to (0: no such
\* link).
Sites(ncats) == [ncat : ncats, next : [1..SitePages -> 0..SitePages]]

\* A site of one category whose listing pages link to one another in order.
LinearSite ==
    [ncat |-> 1,
     next |-> [p \in 1..SitePages |-> IF p < SitePages THEN p + 1 ELSE 0]]

\* The scrapers that drop a next link leading to the current page.
SelfLinkCheck == {"kheralds", "kpopmap", "soomi"}

\* The listing page the pagination code goes to after page p (0: None).
NextLink(s, st, p) ==
    IF s \in SelfLinkCheck /\ st.next[p] = p THEN 0 ELSE st.next[p]

\* A loop condition without the page count.
AlwaysMorePages(s, ps) == TRUE

\* while current and pages_scraped < MAX_PAGES: the page count allows
\* another listing page.
MorePages(s, ps) == ps < MAX_PAGES(s)

\* How a db_upsert call can go.
DbOutcomes == {"ok", "connect_fail", "execute_fail"}

\* db_upsert of kheralds and kpopmap is left by an exception when the
\* connection cannot be acquired: its except clause formats params before
\* params is bound.
RaisesOnConnectFail == {"kheralds", "kpopmap"}

\* The anchor title and the body text of an article before any rewrite.
TitleOf(l) == <<"T", l.head>>
BodyOf(l) == <<"B", l.head>>

\* What the candidate loop does with a fetched article page.
Verdict(s, page) ==
    IF s \in RequestsScrapers
    THEN IF NoDate(page.date) THEN "skip"
         ELSE IF NotToday(page.date)
              THEN (IF s \in BreakOnStale THEN "break" ELSE "skip")
         ELSE IF BodyTooShort(s, ExtractBody(page.body)) THEN "skip"
         ELSE "keep"
    ELSE IF BodyTooShort(s, ExtractBody(page.body)) THEN "skip"
         ELSE IF NoDate(page.date) THEN "skip"
         ELSE IF s \notin NoFreshnessCheck /\ NotToday(page.date)
              THEN (IF s \in BreakOnStale THEN "break" ELSE "skip")
         ELSE "keep"

\* Does this run call the rewriter?
CallsRewriter(s, have) ==
    \/ s \in RequestsScrapers
    \/ s \in OptionalRewriter /\ have

\* The record the candidate loop builds; rw remembers how the rewrite went.
BuildRec(s, have, l, resp) ==
    LET rew == IF CallsRewriter(s, have)
               THEN rewrite_with_gpt_expanded(TitleOf(l), BodyOf(l), resp)
               ELSE [header |-> TitleOf(l), summary |-> BodyOf(l)]
    IN [category  |-> "kdrama",
        title     |-> OrElse(rew.header, TitleOf(l)),
        link      |-> l,
        summary   |-> OrElse(rew.summary, BodyOf(l)),
        image_url |-> "u",
        author    |-> "by",
        published |-> art[l].date,
        views |-> 0, is_featured |-> 0, featured_rank |-> NONE,
        last_metrics_update |-> NONE, trend_score |-> 0,
        uuid_bytes |-> "uuid4",
        rw        |-> IF CallsRewriter(s, have) THEN ResponseClass(resp)
                      ELSE "nocall"]

(***************************************************************************)
(* The JSON output file                                                    *)
(***************************************************************************)
\* OUTPUT_JSON on disk: its kind (absent, list, ...) and, for a list, its
\* records.
JsonFile(kind, recs) == [kind |-> kind, records |-> recs]

\* merged[rec["link"]] = rec on a dict kept as its list of values: a known
\* link keeps its place and takes the new record, a new one goes last.
AppendRecord(merged, rec) == Append(merged, rec)

Put(merged, rec) ==
    IF \E k \in 1..Len(merged) : merged[k].link = rec.link
    THEN [k \in 1..Len(merged) |->
             IF merged[k].link = rec.link THEN rec ELSE merged[k]]
    ELSE Append(merged, rec)

RECURSIVE PutAll(_, _)
PutAll(merged, recs) ==
    IF recs = <<>> THEN merged
    ELSE PutAll(Put(merged, Head(recs)), Tail(recs))

\* merged_list: the records of existing that have a link, if existing is a
\* list, then the records of the run.
MergedList(ex, recs) ==
    PutAll(PutAll(<<>>, IF ex.list THEN SelectSeq(ex.items,
                                         LAMBDA e : e.link # NULL)
                        ELSE <<>>),
           recs)

\* What open(OUTPUT_JSON, "w") and json.dump can come to.
WriteOutcomes == {"ok", "open_failed", "dump_failed"}

\* Scrapers that write OUTPUT_JSON at the end of the run; knews and kareboo
\* merge it with the prior file.
JsonScrapers == {"kdramastars", "kheralds", "kpopmap", "soomi", "knews",
                 "kareboo"}

MergingScrapers == {"knews", "kareboo"}

\* Scrapers whose candidate loop appends the record to the results list.
AppendsResults == JsonScrapers \ {"kdramastars"}

\* knews, kareboo: rec_json = dict(rec_db) with the uuid as hex text and
\* without uuid_bytes.
RecJson(rec) ==
    [category |-> rec.category, title |-> rec.title, link |-> rec.link,
     summary |-> rec.summary, image_url |-> rec.image_url,
     author |-> rec.author, published |-> rec.published,
     views |-> rec.views, is_featured |-> rec.is_featured,
     featured_rank |-> rec.featured_rank,
     last_metrics_update |-> rec.last_metrics_update,
     trend_score |-> rec.trend_score, rw |-> rec.rw, uuid |-> "hex"]

\* What the candidate loop appends to results.
ResultOf(s, rec) == IF s \in MergingScrapers THEN RecJson(rec) ELSE rec

\* json.dump raises TypeError on a bytes value: a record that still holds
\* its uuid_bytes.
JsonDumpRaises(recs) ==
    \E k \in 1..Len(recs) : "uuid_bytes" \in DOMAIN recs[k]

(***************************************************************************)
(* One scraper run over its categories                                     *)
(***************************************************************************)

Pages == [date : PageDates, body : PageBodies]

\* Whether the run writes to the DB: always, but for --dry-run.
WritesDb == ~dryRun

DbSettings == {"DB_USER", "DB_PASS", "DB_HOST", "DB_NAME"}

\* The environments of a run: complete, without a password, or empty.
ConfigCases == {DbSettings, DbSettings \ {"DB_PASS"}, {}}

\* all([DB_USER, DB_PASS, DB_HOST, DB_NAME])
AnySet(cfg) == cfg # {}

AllSet(cfg) == DbSettings \subseteq cfg

\* The start of a run on a given site.
InitRun ==
    /\ InitTable
    /\ InitDbProcs
    /\ scraper \in Scrapers
    /\ dryRun \in (IF scraper \in DryRunScrapers THEN BOOLEAN ELSE {FALSE})
    /\ haveRewriter \in (IF scraper \in OptionalRewriter THEN BOOLEAN
                         ELSE {scraper \in RequestsScrapers})
    /\ spc = "startup"
    /\ cat = 1
    /\ listing = 1
    /\ pagesScraped = 0
    /\ idx = 0
    /\ items = <<>>
    /\ visited = {}
    /\ upsertLog = {}
    /\ loads = <<>>
    /\ results = <<>>
    /\ snapshot = [kind |-> "absent", records |-> <<>>]
    /\ pool = FALSE
    /\ InstaIdle /\ InitBucket /\ BatchIdle /\ LectoIdle /\ ShopIdle /\ JsonIdle
    /\ PageIdle

\* Runs over one category with any article pages.
InitScraper ==
    /\ InitRun
    /\ art \in [ArticleLinks -> Pages]
    /\ site = LinearSite
    /\ dbConfig \in ConfigCases

\* db_upsert(rec) / upsert_article(rec) as one step of a single process.
DbUpsert(rec, db) ==
    /\ articles' = IF db = "ok"
                   THEN UPSERT_SQL(articles, Params(rec), nextId, NOW(nextId))
                   ELSE articles
    /\ nextId' = nextId + 1
    /\ upsertLog' = upsertLog \cup
          {[link |-> rec.link, title |-> rec.title, summary |-> rec.summary,
            rw |-> rec.rw, ok |-> db = "ok"]}

\* The loop over the categories goes on with the next listing URL, or the
\* run is finished; ps is the final pages_scraped of the category.
NextCategory(ps) ==
    IF cat < site.ncat
    THEN /\ cat' = cat + 1
         /\ listing' = 1
         /\ pagesScraped' = 0
         /\ spc' = "listing"
         /\ idx' = 0
    ELSE /\ spc' = "done"
         /\ idx' = 1
         /\ pagesScraped' = ps
         /\ UNCHANGED <<cat, listing>>

\* How the listing loop of a category ends: the requests scrapers return
\* the collected records to main(), which upserts them; the others go on
\* to the next category.
EndCategory(ps) ==
    IF scraper \in RequestsScrapers /\ items # <<>>
    THEN /\ spc' = "flush"
         /\ idx' = 1
         /\ pagesScraped' = ps
         /\ UNCHANGED <<cat, listing>>
    ELSE NextCategory(ps)

\* The local visited set of scrape_category_today is new in every category.
VisitedAfter(v) ==
    IF scraper \in RequestsScrapers /\ cat' # cat THEN {} ELSE v

\* Module startup (kheralds, kpopmap: run_all): without the DB settings
\* the script exits; otherwise the pool is created, and a failure of that
\* ends the script.  A dry run does neither.
Startup(poolOk) ==
    /\ spc = "startup"
    /\ IF ~WritesDb
       THEN spc' = "listing" /\ pool' = FALSE
       ELSE IF ~AllSet(dbConfig)
       THEN spc' = "exit_config" /\ pool' = FALSE
       ELSE IF ~poolOk
       THEN spc' = "exit_pool" /\ pool' = FALSE
       ELSE spc' = "listing" /\ pool' = TRUE
    /\ UNCHANGED <<articles, dbVars, scraper, dryRun, haveRewriter, art,
                   listing, pagesScraped, idx, items, visited, upsertLog,
                   cat, site, loads, results, snapshot, dbConfig, otherVars>>

\* The listing page is loaded (ok) or the load fails.
LoadListing(ok) ==
    /\ spc = "listing"
    /\ loads' = Append(loads, [cat |-> cat, page |-> listing, ok |-> ok])
    /\ IF ok
       THEN /\ spc' = "articles"
            /\ idx' = 1
            /\ UNCHANGED <<cat, listing, pagesScraped, items>>
       ELSE IF scraper \in PageNumberScrapers
       THEN \* continue with the next page number
            /\ IF listing < MAX_PAGES(scraper)
               THEN /\ listing' = listing + 1
                    /\ UNCHANGED <<spc, idx, cat, pagesScraped>>
               ELSE EndCategory(pagesScraped)
            /\ UNCHANGED items
       ELSE IF scraper \in RequestsScrapers
       THEN \* fetch() raises out of scrape_category_today into main(),
            \* which logs it and takes the next category
            /\ NextCategory(pagesScraped)
            /\ items' = <<>>
       ELSE \* break
            /\ EndCategory(pagesScraped)
            /\ UNCHANGED items
    /\ visited' = VisitedAfter(visited)
    /\ UNCHANGED <<articles, dbVars, scraper, dryRun, haveRewriter, art,
                   upsertLog, site, results, snapshot, dbConfig, pool,
                   otherVars>>

\* One iteration of the candidate loop: fetch the article page, extract,
\* filter, rewrite, and upsert or collect.
VisitArticle(fetchOk, resp, db) ==
    /\ spc = "articles"
    /\ idx <= Len(Candidates(listing))
    /\ LET l == Candidates(listing)[idx]
           verdict == Verdict(scraper, art[l])
           rec == BuildRec(scraper, haveRewriter, l, resp)
           gotPage == fetchOk /\ ~(scraper \in RequestsScrapers /\ l \in visited)
           upserts == /\ gotPage /\ verdict = "keep"
                      /\ scraper \notin RequestsScrapers /\ ~dryRun
           crashes == /\ upserts /\ db = "connect_fail"
                      /\ scraper \in RaisesOnConnectFail
       IN /\ visited' = IF gotPage THEN visited \cup {l} ELSE visited
          /\ results' = IF /\ gotPage /\ verdict = "keep" /\ ~crashes
                           /\ scraper \in AppendsResults
                        THEN Append(results, ResultOf(scraper, rec))
                        ELSE results
          /\ IF crashes
             THEN spc' = "crashed" /\ idx' = idx
             ELSE IF gotPage /\ verdict = "break"
             THEN spc' = "paginate" /\ idx' = idx
             ELSE spc' = spc /\ idx' = idx + 1
          /\ IF gotPage /\ verdict = "keep"
             THEN IF scraper \in RequestsScrapers
                  THEN /\ items' = Append(items, rec)
                       /\ UNCHANGED <<articles, nextId, upsertLog>>
                  ELSE IF dryRun
                  THEN UNCHANGED <<articles, nextId, upsertLog, items>>
                  ELSE DbUpsert(rec, db) /\ UNCHANGED items
             ELSE UNCHANGED <<articles, nextId, upsertLog, items>>
    /\ UNCHANGED <<dbpc, dbrec, txn, calls, upsertOk, checkedOut, scraper,
                   dryRun, haveRewriter, art, listing, pagesScraped, cat,
                   site, loads, snapshot, dbConfig, pool, otherVars>>

\* After the candidates of a page: find the next listing page.
Paginate ==
    /\ \/ spc = "paginate"
       \/ spc = "articles" /\ idx > Len(Candidates(listing))
    /\ IF scraper \in PageNumberScrapers
       THEN IF listing < MAX_PAGES(scraper)
            THEN /\ listing' = listing + 1 /\ spc' = "listing" /\ idx' = 0
                 /\ pagesScraped' = pagesScraped + 1
                 /\ UNCHANGED cat
            ELSE EndCategory(pagesScraped + 1)
       ELSE IF /\ NextLink(scraper, site, listing) # 0
               /\ MorePages(scraper, pagesScraped + 1)
            THEN /\ listing' = NextLink(scraper, site, listing)
                 /\ pagesScraped' = pagesScraped + 1
                 /\ spc' = "listing" /\ idx' = 0
                 /\ UNCHANGED cat
            ELSE EndCategory(pagesScraped + 1)
    /\ visited' = VisitedAfter(visited)
    /\ UNCHANGED <<articles, dbVars, scraper, dryRun, haveRewriter, art,
                   items, upsertLog, site, loads, results, snapshot,
                   dbConfig, pool, otherVars>>

\* main() of a requests scraper: upsert the next collected record, and
\* after the last one take the next category.
UpsertCollected(db) ==
    /\ spc = "flush"
    /\ idx <= Len(items)
    /\ DbUpsert(items[idx], db)
    /\ IF idx = Len(items)
       THEN /\ NextCategory(pagesScraped)
            /\ items' = IF cat < site.ncat THEN <<>> ELSE items
       ELSE /\ idx' = idx + 1
            /\ UNCHANGED <<spc, cat, listing, pagesScraped, items>>
    /\ visited' = VisitedAfter(visited)
    /\ UNCHANGED <<dbpc, dbrec, txn, calls, upsertOk, checkedOut, scraper,
                   dryRun, haveRewriter, art, site, loads, results, snapshot,
                   dbConfig, pool, otherVars>>

\* main(), after the categories: json.dump(results, f) into OUTPUT_JSON,
\* which open(..., "w") has emptied.  knews and kareboo merge into the file,
\* here absent before the run, and catch and log a failure of the dump; in
\* the others the TypeError of json.dump ends main().
WriteSnapshot ==
    /\ spc = "done"
    /\ scraper \in JsonScrapers
    /\ LET merged == IF scraper \in MergingScrapers
                     THEN MergedList([list |-> TRUE, items |-> <<>>],
                                     results)
                     ELSE results
       IN  /\ snapshot' = IF JsonDumpRaises(merged)
                          THEN JsonFile("truncated", <<>>)
                          ELSE JsonFile("list", merged)
           /\ spc' = IF JsonDumpRaises(merged)
                        /\ scraper \notin MergingScrapers
                     THEN "json_error" ELSE "exit"
    /\ UNCHANGED <<articles, dbVars, scraper, dryRun, haveRewriter, art,
                   listing, pagesScraped, idx, items, visited, upsertLog,
                   cat, site, loads, results, dbConfig, pool, otherVars>>

NextScraper ==
    \/ \E poolOk \in BOOLEAN : Startup(poolOk)
    \/ WriteSnapshot
    \/ \E ok \in BOOLEAN : LoadListing(ok)
    \/ \E fetchOk \in BOOLEAN, resp \in RewriteResponses, db \in DbOutcomes :
          VisitArticle(fetchOk, resp, db)
    \/ Paginate
    \/ \E db \in DbOutcomes : UpsertCollected(db)

SpecScraper == InitScraper /\ [][NextScraper]_vars

UpsertedLinks == {u.link : u \in upsertLog}

\* The length of the body the extractor returns for a link's page.
BodyLen(l) == ExtractBody(art[l].body)

\* C2: no db_upsert call is executed for an article whose publish date in
\* the configured time zone is yesterday, and when the run is over every
\* fetched article of today with a usable body has had its db_upsert call
\* (unless the run is a dry run).
C2_FreshnessFilter ==
    /\ \A u \in upsertLog : LocalDate(art[u.link].date) # "yesterday"
    /\ (spc = "done" /\ ~dryRun) =>
          \A l \in visited :
             (LocalDate(art[l].date) = "today"
                 /\ ~BodyTooShort(scraper, BodyLen(l)))
             => l \in UpsertedLinks

\* C3: no db_upsert call is ever executed for a link whose article page
\* has no publish date.
C3_NoDateNoUpsert ==
    \A u \in upsertLog : art[u.link].date # "none"

\* A finished run fetched an article with a long body and no publish date,
\* and upserted the other article.
C3_Witness ==
    /\ spc = "done"
    /\ upsertLog # {}
    /\ \E l \in visited :
          /\ art[l].date = "none"
          /\ BodyLen(l) = 90
          /\ l \notin UpsertedLinks

\* The minimum body length of each scraper: the one its candidate loop
\* compares with, and for kbizoom the one of its extractor.
ClaimedMinBody(s) == IF s = "kbizoom" THEN KBIZ_MIN_TEXT ELSE MinBodyLen(s)

\* C4: no db_upsert call is executed for an article whose extracted body
\* is empty or shorter than the scraper's minimum length.
C4_ShortBodyNoUpsert ==
    \A u \in upsertLog :
        BodyLen(u.link) # 0 /\ BodyLen(u.link) >= ClaimedMinBody(scraper)

\* C5: when the rewrite call raised or its reply held no parsable JSON
\* object, the upserted title and summary are the article's title and
\* body from before the call.
C5_RewriteFallback ==
    \A u \in upsertLog :
        u.rw \in {"raised", "unparsable"} =>
            u.title = TitleOf(u.link) /\ u.summary = BodyOf(u.link)

\* C14: no run is ever left by an exception of a db_upsert call whose
\* connection or statement failed, and every stored row stems from a call
\* that returned True: nothing of a failed call is committed.
C14_UpsertFailureReturnsFalse ==
    /\ spc # "crashed"
    /\ \A r \in articles :
          \E u \in upsertLog : u.ok /\ TruncLink(u.link) = r.link

\* Runs over the categories of sites whose next links may lead anywhere:
\* to the next page, back to a page already loaded, to the page itself or
\* nowhere.  The article pages are the same in all of them.
InitPaging ==
    /\ InitRun
    /\ art = [l \in ArticleLinks |->
                 [date |-> IF l.head = "a" THEN "utcT_locT" ELSE "none",
                  body |-> [node |-> 10, paras |-> 90]]]
    /\ site \in Sites(IF scraper \in {"kareboo", "koreatech"} THEN {1}
                       ELSE {2})
    /\ dbConfig = DbSettings

SpecPaging == InitPaging /\ [][NextScraper]_vars

\* The run has come to its end: normally or by an exception.
RunOver ==
    spc \in {"done", "crashed", "exit", "json_error", "exit_config", "exit_pool"}

\* The scraper follows the run to its end.
SpecPagingFair == SpecPaging /\ WF_vars(NextScraper)

\* The indices of the loads of a category.
LoadsOf(c) == {i \in 1..Len(loads) : loads[i].cat = c}

\* C15: after a failed load of a listing page no further listing page of
\* that category is requested, and a finished run has requested a listing
\* page of every category.
C15_ListingFailureEndsCategory ==
    /\ \A i \in 1..Len(loads), j \in 1..Len(loads) :
          (i < j /\ ~loads[i].ok) => loads[j].cat # loads[i].cat
    /\ spc = "done" => \A c \in 1..site.ncat : LoadsOf(c) # {}

\* C29: when a listing page of a requests-based scraper fails to load
\* after its retries, the records collected from the earlier listing pages
\* of the category are kept and main() goes on to upsert them.
C29_CollectedSurviveListingFailure ==
    [][(/\ spc = "listing" /\ scraper \in RequestsScrapers
        /\ items # <<>>
        /\ Len(loads') = Len(loads) + 1
        /\ ~loads'[Len(loads')].ok)
          => (spc' = "flush" /\ items' = items)]_vars

\* At most the configured number of listing pages is loaded per category,
\* and a scraper that follows next links loads nothing more of a category
\* after a page without a next link.
PagesBounded ==
    /\ \A c \in 1..site.ncat :
          Cardinality(LoadsOf(c)) <= MAX_PAGES(scraper)
    /\ scraper \notin PageNumberScrapers =>
          \A i \in 1..Len(loads), j \in 1..Len(loads) :
              (i < j /\ loads[i].ok /\ site.next[loads[i].page] = 0)
                  => loads[j].cat # loads[i].cat

MainLeft == spc \in {"exit", "json_error"}

\* The snapshot holds the record of an upsert call.
InSnapshot(u) ==
    /\ snapshot.kind = "list"
    /\ \E k \in 1..Len(snapshot.records) :
          /\ snapshot.records[k].link = u.link
          /\ snapshot.records[k].title = u.title
          /\ snapshot.records[k].summary = u.summary

\* C21: when a scraper that writes OUTPUT_JSON has left main(), the file
\* holds every record the run handed to db_upsert.
C21_SnapshotHoldsUpserted ==
    (scraper \in JsonScrapers /\ MainLeft) =>
        \A u \in upsertLog : InSnapshot(u)

\* C22: in a --dry-run no pool is created and no upsert is executed, and
\* when main() is left the JSON output holds the collected records.
C22_DryRun ==
    dryRun =>
       /\ ~pool
       /\ upsertLog = {}
       /\ articles = {}
       /\ MainLeft => snapshot = JsonFile("list", results)

\* C26: when the candidate being visited is an article of yesterday and
\* the scraper checks freshness, the candidate loop goes on with the next
\* candidate of the same listing page.
C26_StaleCandidateNoBreak ==
    [][(/\ spc = "articles"
        /\ idx <= Len(Candidates(listing))
        /\ scraper \notin NoFreshnessCheck
        /\ LocalDate(art[Candidates(listing)[idx]].date) = "yesterday"
        /\ <<spc, idx>>' # <<spc, idx>>)
          => (spc' = "articles" /\ idx' = idx + 1)]_vars

\* C23: a run that writes to the DB and misses one of DB_USER, DB_PASS,
\* DB_HOST, DB_NAME loads no listing page, visits no article, creates no
\* pool and executes no upsert: it exits at startup.
C23_MissingConfigExits ==
    (WritesDb /\ ~(DbSettings \subseteq dbConfig)) =>
       /\ spc \in {"startup", "exit_config"}
       /\ loads = <<>>
       /\ visited = {}
       /\ ~pool
       /\ upsertLog = {}
       /\ articles = {}

\* A run without DB_PASS has exited at startup.
C23_Witness ==
    /\ spc = "exit_config"
    /\ dbConfig = DbSettings \ {"DB_PASS"}

(***************************************************************************)
(* The Instagram publishing scripts                                        *)
(***************************************************************************)

\* Articles fetch_articles(limit) hands to process_and_publish.
MaxInstaArticles == 2

\* The key of the object uploaded for an article's media item.
Key(a, m) == [article |-> a, media |-> m]

\* The container id the Graph API returns for a media item.
Cid(a, m) == 2 * a - (IF m = "image" THEN 1 ELSE 0)

CreateOutcomes == {"id", "no_id", "http_error", "timeout"}
PublishOutcomes == {"ok", "http_error", "timeout"}

\* What a container-create request returned: the id, 0 for a reply without
\* id, -1 when the request raised.
CreateResult(a, m, outcome) ==
    CASE outcome = "id"    -> Cid(a, m)
      [] outcome = "no_id" -> 0
      [] OTHER             -> -1

InitInsta ==
    /\ InitTable /\ InitDbProcs /\ ScraperIdle /\ BatchIdle /\ LectoIdle
    /\ InitBucket /\ ShopIdle /\ JsonIdle
    /\ PageIdle
    /\ iscript \in {"insta_post", "insta_post_test"}
    /\ ipc = "prepare"
    /\ iart = 1
    /\ imedia = "image"
    /\ uploadedKeys = <<>>
    /\ creationId = 0
    /\ apiLog = <<>>
    /\ ifailed = {}

instaRest == <<articles, dbVars, scraperVars, batchVars, lectoVars,
               shopVars, jsonVars, pageVars>>

\* insta_post: the for loop of process_and_publish goes to the next article.
NextArticle ==
    /\ IF iart < MaxInstaArticles
       THEN iart' = iart + 1 /\ ipc' = "prepare"
       ELSE iart' = iart /\ ipc' = "exit"
    /\ imedia' = "image"
    /\ creationId' = 0

\* insta_post: after the try block of one media item.
AfterMedia ==
    IF imedia = "image"
    THEN imedia' = "video" /\ ipc' = "create" /\ iart' = iart
    ELSE imedia' = imedia /\ ipc' = "feed" /\ iart' = iart

\* insta_post: download the image, overlay the title, render the reel.
IP_Prepare(ok) ==
    /\ iscript = "insta_post" /\ ipc = "prepare"
    /\ IF ok
       THEN ipc' = "upload_image" /\ UNCHANGED <<iart, imedia, creationId>>
       ELSE NextArticle
    /\ UNCHANGED <<iscript, uploadedKeys, apiLog, ifailed, bucket, instaRest>>

\* insta_post: upload_file_to_r2(edited_image_path, image_key)
IP_UploadImage(ok) ==
    /\ iscript = "insta_post" /\ ipc = "upload_image"
    /\ IF ok
       THEN /\ bucket' = bucket \cup {Key(iart, "image")}
            /\ ipc' = "upload_video"
            /\ UNCHANGED <<iart, imedia, creationId>>
       ELSE NextArticle /\ UNCHANGED bucket
    /\ UNCHANGED <<iscript, uploadedKeys, apiLog, ifailed, instaRest>>

\* insta_post: upload_file_to_r2(video_local_path, video_key)
IP_UploadVideo(ok) ==
    /\ iscript = "insta_post" /\ ipc = "upload_video"
    /\ IF ok
       THEN /\ bucket' = bucket \cup {Key(iart, "video")}
            /\ ipc' = "create"
            /\ UNCHANGED <<iart, imedia, creationId>>
       ELSE NextArticle /\ UNCHANGED bucket
    /\ UNCHANGED <<iscript, uploadedKeys, apiLog, ifailed, instaRest>>

\* insta_post: create_media_container_image / _video
IP_Create(outcome) ==
    /\ iscript = "insta_post" /\ ipc = "create"
    /\ apiLog' = Append(apiLog, [op |-> "create", article |-> iart,
                                 media |-> imedia,
                                 id |-> CreateResult(iart, imedia, outcome)])
    /\ IF outcome \in {"http_error", "timeout"}
       THEN /\ ifailed' = ifailed \cup {iart}
            /\ AfterMedia
            /\ UNCHANGED creationId
       ELSE /\ creationId' = CreateResult(iart, imedia, outcome)
            /\ ipc' = "publish"
            /\ UNCHANGED <<iart, imedia, ifailed>>
    /\ UNCHANGED <<iscript, uploadedKeys, bucket, instaRest>>

\* insta_post: publish_media(ig_user_id, creation_id)
IP_Publish(outcome) ==
    /\ iscript = "insta_post" /\ ipc = "publish"
    /\ apiLog' = Append(apiLog, [op |-> "publish", article |-> iart,
                                 media |-> imedia, id |-> creationId])
    /\ ifailed' = IF outcome = "ok" THEN ifailed ELSE ifailed \cup {iart}
    /\ AfterMedia
    /\ UNCHANGED <<iscript, uploadedKeys, creationId, bucket, instaRest>>

\* insta_post: post_to_facebook_page when a page id is configured.
IP_Feed(outcome) ==
    /\ iscript = "insta_post" /\ ipc = "feed"
    /\ apiLog' = IF outcome = "ok"
                 THEN Append(apiLog, [op |-> "feed", article |-> iart,
                                      media |-> "none", id |-> 0])
                 ELSE apiLog
    /\ NextArticle
    /\ UNCHANGED <<iscript, uploadedKeys, ifailed, bucket, instaRest>>

\* The keys of the uploaded_keys list.
KeysOf(keys) == {keys[i] : i \in 1..Len(keys)}

\* cleanup_uploaded_keys(keys): delete every key; a delete that raises is
\* logged and leaves its object (stuck) in the bucket.
cleanup_uploaded_keys(bkt, keys, stuck) == bkt \ (KeysOf(keys) \ stuck)

\* insta_post_test: configuration checks, article fetch, download, overlay
\* and image processing; any abort returns from main().
T_Prepare(ok) ==
    /\ iscript = "insta_post_test" /\ ipc = "prepare"
    /\ ipc' = IF ok THEN "video" ELSE "exit"
    /\ UNCHANGED <<iscript, iart, imedia, uploadedKeys, creationId, apiLog,
                   ifailed, bucket, instaRest>>

\* insta_post_test: the optional video of step 5.
T_Video(outcome) ==
    /\ iscript = "insta_post_test" /\ ipc = "video"
    /\ IF outcome \in {"uploaded_invalid", "uploaded_valid"}
       THEN /\ bucket' = bucket \cup {Key(iart, "video")}
            /\ uploadedKeys' = Append(uploadedKeys, Key(iart, "video"))
       ELSE UNCHANGED <<bucket, uploadedKeys>>
    /\ IF outcome = "uploaded_valid"
       THEN imedia' = "video" /\ ipc' = "create"
       ELSE imedia' = "image" /\ ipc' = "upload_image"
    /\ UNCHANGED <<iscript, iart, creationId, apiLog, ifailed, instaRest>>

\* insta_post_test: upload_file_to_r2_and_get_presigned for the image; a
\* failed validation deletes the object (or fails to) and re-raises.
T_UploadImage(outcome) ==
    /\ iscript = "insta_post_test" /\ ipc = "upload_image"
    /\ bucket' = IF outcome \in {"ok", "invalid_kept"}
                 THEN bucket \cup {Key(iart, "image")}
                 ELSE bucket
    /\ IF outcome = "ok"
       THEN /\ uploadedKeys' = Append(uploadedKeys, Key(iart, "image"))
            /\ ipc' = "create"
       ELSE /\ UNCHANGED uploadedKeys
            /\ ipc' = "exit"
    /\ UNCHANGED <<iscript, iart, imedia, creationId, apiLog, ifailed,
                   instaRest>>

\* insta_post_test: create_media_container; only requests.HTTPError is
\* caught, any other exception leaves main() at once.
T_Create(outcome, stuck) ==
    /\ iscript = "insta_post_test" /\ ipc = "create"
    /\ stuck \subseteq KeysOf(uploadedKeys)
    /\ apiLog' = Append(apiLog, [op |-> "create", article |-> iart,
                                 media |-> imedia,
                                 id |-> CreateResult(iart, imedia, outcome)])
    /\ CASE outcome = "id" ->
              /\ creationId' = CreateResult(iart, imedia, outcome)
              /\ ipc' = "publish"
              /\ UNCHANGED <<bucket, ifailed>>
         [] outcome = "timeout" ->
              /\ ifailed' = ifailed \cup {iart}
              /\ ipc' = "exit"
              /\ UNCHANGED <<bucket, creationId>>
         [] OTHER ->
              /\ ifailed' = ifailed \cup {iart}
              /\ bucket' = cleanup_uploaded_keys(bucket, uploadedKeys, stuck)
              /\ ipc' = "exit"
              /\ UNCHANGED creationId
    /\ UNCHANGED <<iscript, iart, imedia, uploadedKeys, instaRest>>

\* insta_post_test: publish_media_container and the final cleanup.
T_Publish(outcome, stuck) ==
    /\ iscript = "insta_post_test" /\ ipc = "publish"
    /\ stuck \subseteq KeysOf(uploadedKeys)
    /\ apiLog' = Append(apiLog, [op |-> "publish", article |-> iart,
                                 media |-> imedia, id |-> creationId])
    /\ ifailed' = IF outcome = "ok" THEN ifailed ELSE ifailed \cup {iart}
    /\ bucket' = IF outcome = "timeout" THEN bucket
                 ELSE cleanup_uploaded_keys(bucket, uploadedKeys, stuck)
    /\ ipc' = "exit"
    /\ UNCHANGED <<iscript, iart, imedia, uploadedKeys, creationId,
                   instaRest>>

AllKeys == {Key(a, m) : a \in 1..MaxInstaArticles, m \in {"image", "video"}}

NextInsta ==
    \/ \E ok \in BOOLEAN : IP_Prepare(ok)
    \/ \E ok \in BOOLEAN : IP_UploadImage(ok)
    \/ \E ok \in BOOLEAN : IP_UploadVideo(ok)
    \/ \E outcome \in CreateOutcomes : IP_Create(outcome)
    \/ \E outcome \in PublishOutcomes : IP_Publish(outcome)
    \/ \E outcome \in {"no_page_id", "ok", "error"} : IP_Feed(outcome)
    \/ \E ok \in BOOLEAN : T_Prepare(ok)
    \/ \E outcome \in {"no_audio", "failed", "uploaded_invalid",
                       "uploaded_valid"} : T_Video(outcome)
    \/ \E outcome \in {"upload_failed", "invalid_deleted", "invalid_kept",
                       "ok"} : T_UploadImage(outcome)
    \/ \E outcome \in CreateOutcomes, stuck \in SUBSET AllKeys :
          T_Create(outcome, stuck)
    \/ \E outcome \in PublishOutcomes, stuck \in SUBSET AllKeys :
          T_Publish(outcome, stuck)

SpecInsta == InitInsta /\ [][NextInsta]_vars

\* The script is through with an article: it went on to the next or ended.
DoneWith(a) == ipc = "exit" \/ iart > a

\* C6: once the script is through with an article for which a
\* container-create or publish request failed after an upload, the bucket
\* holds no object uploaded for that article.
C6_CleanupOnFailure ==
    \A a \in ifailed :
        DoneWith(a) => ~\E k \in bucket : k.article = a

\* C28: when main() of insta_post_test has ended, the bucket holds no
\* object uploaded during the run.
C28_NothingLeftInBucket ==
    (iscript = "insta_post_test" /\ ipc = "exit") =>
        ~\E k \in bucket : k.article = iart

\* C7: every publish request carries an id that an earlier container-create
\* request for the same media item returned, and no publish request follows
\* a create request that failed or returned no id.
C7_PublishAfterCreate ==
    \A i \in 1..Len(apiLog) :
        /\ apiLog[i].op = "publish" =>
              /\ apiLog[i].id > 0
              /\ \E j \in 1..(i - 1) :
                    /\ apiLog[j].op = "create"
                    /\ apiLog[j].article = apiLog[i].article
                    /\ apiLog[j].media = apiLog[i].media
                    /\ apiLog[j].id = apiLog[i].id
        /\ (apiLog[i].op = "create" /\ apiLog[i].id <= 0) =>
              ~\E j \in (i + 1)..Len(apiLog) :
                    /\ apiLog[j].op = "publish"
                    /\ apiLog[j].article = apiLog[i].article
                    /\ apiLog[j].media = apiLog[i].media

(***************************************************************************)
(* The image batch job (batch_watermark_r2)                                *)
(***************************************************************************)

\* Rows in the articles table when the batch job starts.
BatchRows == 2

\* process_row(record_id, image_url, retries=2, delay=2)
RETRIES == 2

\* LIMIT of SQL_SELECT_PENDING
SELECT_LIMIT == 500

LinkNames == <<"a", "b", "c", "d">>

\* The full R2 URL upload_to_r2 returns for a row's watermarked image.
R2Urls == <<"r2/uploads/1", "r2/uploads/2", "r2/uploads/3", "r2/uploads/4">>

\* A stored row with the given image columns.
StoredRow(id, image_url, image_name) ==
    [NewRow(Params([category |-> "kdrama", title |-> <<"T">>,
                    link |-> Url(LinkNames[id], ""), summary |-> <<"B">>,
                    image_url |-> image_url]), id, NOW(id))
     EXCEPT !.image_name = image_name]

\* The ids of a set in ascending order (ORDER BY id).
RECURSIVE SortedIds(_)
SortedIds(ids) ==
    IF ids = {} THEN <<>>
    ELSE LET m == CHOOSE x \in ids : \A y \in ids : x <= y
         IN <<m>> \o SortedIds(ids \ {m})

\* The first n elements of a sequence (LIMIT n).
Limit(seq, n) == IF Len(seq) <= n THEN seq ELSE SubSeq(seq, 1, n)

\* SQL_SELECT_PENDING: rows with an image_url and without an image_name.
SelectPending(tbl, n) ==
    Limit(SortedIds({r.id : r \in {x \in tbl : x.image_url # ""
                                                /\ x.image_name = ""}}),
          n)

SQL_SELECT_PENDING(tbl) == SelectPending(tbl, SELECT_LIMIT)

\* A download loop that allows one attempt more.
RetryOnceMore(att) == att <= RETRIES + 1

\* if attempt <= retries: sleep and try again
MayRetry(att) == att <= RETRIES

\* A process_row that goes on to the next step whatever the outcome.
AfterStepAlways(step, ok, att) ==
    CASE step = "download"  -> "watermark"
      [] step = "watermark" -> "upload"
      [] step = "upload"    -> "update"
      [] OTHER              -> "return"

\* process_row: what follows a step, given its outcome.
AfterStep(step, ok, att) ==
    CASE step = "download" /\ ok   -> "watermark"
      [] step = "download" /\ ~ok  -> IF MayRetry(att) THEN "download"
                                      ELSE "return"
      [] step = "watermark" /\ ok  -> "upload"
      [] step = "upload" /\ ok     -> "update"
      [] OTHER                     -> "return"

InitBatch ==
    /\ InitDbProcs /\ ScraperIdle /\ InstaIdle /\ LectoIdle /\ InitBucket
    /\ ShopIdle /\ JsonIdle
    /\ PageIdle
    /\ \E cols \in [1..BatchRows -> [image_url : {"", "u"},
                                     image_name : {"", "old"}]] :
          articles = {StoredRow(i, cols[i].image_url, cols[i].image_name) :
                         i \in 1..BatchRows}
    /\ nextId = BatchRows + 1
    /\ bpc = "fetch"
    /\ pending = <<>>
    /\ bidx = 0
    /\ attempt = 0
    /\ steps = [i \in 1..BatchRows |-> <<>>]

batchRest == <<dbVars, scraperVars, instaVars, lectoVars, shopVars,
               jsonVars, pageVars>>

\* run_batch: pending = fetch_pending_rows(); an exception ends the run.
FetchRows(rows) ==
    /\ bpc = "fetch"
    /\ pending' = rows
    /\ IF pending' # <<>>
       THEN bpc' = "download" /\ bidx' = 1 /\ attempt' = 1
       ELSE bpc' = "done" /\ bidx' = 0 /\ attempt' = 0
    /\ UNCHANGED <<articles, bucket, steps, batchRest>>

FetchPending(ok) ==
    FetchRows(IF ok THEN SQL_SELECT_PENDING(articles) ELSE <<>>)

\* One step of process_row is over: go to the step that follows, or return
\* to run_batch, which goes on with the next row.
Proceed(step, ok) ==
    LET next == AfterStep(step, ok, attempt)
    IN /\ steps' = [steps EXCEPT ![pending[bidx]] =
                       Append(@, [step |-> step, ok |-> ok])]
       /\ IF next = "return"
          THEN /\ bidx' = bidx + 1
               /\ attempt' = 1
               /\ bpc' = IF bidx < Len(pending) THEN "download" ELSE "done"
          ELSE /\ bidx' = bidx
               /\ attempt' = IF next = "download" THEN attempt + 1 ELSE attempt
               /\ bpc' = next
       /\ UNCHANGED <<pending, batchRest>>

\* requests.get(image_url) with the size check.
Download(ok) ==
    /\ bpc = "download"
    /\ Proceed("download", ok)
    /\ UNCHANGED <<articles, bucket>>

\* add_watermark(content)
Watermark(ok) ==
    /\ bpc = "watermark"
    /\ Proceed("watermark", ok)
    /\ UNCHANGED <<articles, bucket>>

\* upload_to_r2(watermarked_bytes)
Upload(ok) ==
    /\ bpc = "upload"
    /\ bucket' = IF ok THEN bucket \cup {Key(pending[bidx], "watermarked")}
                 ELSE bucket
    /\ Proceed("upload", ok)
    /\ UNCHANGED articles

\* update_image_name_in_db(record_id, r2_url)
UpdateDb(ok) ==
    /\ bpc = "update"
    /\ articles' = IF ok
                   THEN {IF r.id = pending[bidx]
                         THEN [r EXCEPT !.image_name = R2Urls[r.id]]
                         ELSE r : r \in articles}
                   ELSE articles
    /\ Proceed("update", ok)
    /\ UNCHANGED bucket

NextBatch ==
    \/ \E ok \in BOOLEAN : FetchPending(ok)
    \/ \E ok \in BOOLEAN : Download(ok)
    \/ \E ok \in BOOLEAN : Watermark(ok)
    \/ \E ok \in BOOLEAN : Upload(ok)
    \/ \E ok \in BOOLEAN : UpdateDb(ok)

SpecBatch == InitBatch /\ [][NextBatch]_vars

\* The stored row with an id.
RowOf(id) == CHOOSE r \in articles : r.id = id

\* The step of process_row that comes before a step.
Pred(step) ==
    CASE step = "watermark" -> "download"
      [] step = "upload"    -> "watermark"
      [] OTHER              -> "upload"

\* How often a step occurs among the steps executed for a row.
Count(sq, step) == Cardinality({i \in 1..Len(sq) : sq[i].step = step})

\* C8: the steps of a row run in the order download, watermark, upload, DB
\* update, each directly after the success of the one before it; image_name
\* is written only after a successful upload and update; a row whose
\* processing failed still has the empty image_name.
C8_StepOrder ==
    \A id \in DOMAIN steps :
        LET sq == steps[id]
        IN /\ sq # <<>> => sq[1].step = "download"
           /\ \A i \in 2..Len(sq) :
                 IF sq[i].step = "download"
                 THEN sq[i - 1] = [step |-> "download", ok |-> FALSE]
                 ELSE sq[i - 1] = [step |-> Pred(sq[i].step), ok |-> TRUE]
           /\ RowOf(id).image_name \notin {"", "old"} =>
                 /\ sq # <<>>
                 /\ \E i \in 1..Len(sq) : sq[i] = [step |-> "upload", ok |-> TRUE]
                 /\ sq[Len(sq)] = [step |-> "update", ok |-> TRUE]
           /\ (sq # <<>> /\ ~sq[Len(sq)].ok) => RowOf(id).image_name = ""

\* The batch is over: the first row went through all four steps and has its
\* image_name, the second failed at the upload and has none.
C8_Witness ==
    /\ bpc = "done"
    /\ Len(pending) = 2
    /\ RowOf(pending[1]).image_name = R2Urls[pending[1]]
    /\ Len(steps[pending[1]]) = 4
    /\ steps[pending[2]][Len(steps[pending[2]])] = [step |-> "upload", ok |-> FALSE]
    /\ RowOf(pending[2]).image_name = ""

\* C9: per row at most RETRIES + 1 = 3 download attempts and at most one
\* watermark, one upload and one DB update; nothing follows a failed step
\* except the next download attempt; and run_batch processes every row it
\* fetched, whatever happened to the rows before it.
C9_BoundedAttempts ==
    /\ \A id \in DOMAIN steps :
          LET sq == steps[id]
          IN /\ Count(sq, "download") <= 3
             /\ Count(sq, "download") <= RETRIES + 1
             /\ Count(sq, "watermark") <= 1
             /\ Count(sq, "upload") <= 1
             /\ Count(sq, "update") <= 1
             /\ \A i \in 1..(Len(sq) - 1) :
                   ~sq[i].ok => sq[i].step = "download"
                                  /\ sq[i + 1].step = "download"
    /\ bpc = "done" =>
          \A i \in 1..Len(pending) : steps[pending[i]] # <<>>

\* The batch is over: the first row's download failed three times and
\* nothing else was tried for it, and the second row was processed to the
\* end.
C9_Witness ==
    /\ bpc = "done"
    /\ Len(pending) = 2
    /\ steps[pending[1]] = <<[step |-> "download", ok |-> FALSE],
                             [step |-> "download", ok |-> FALSE],
                             [step |-> "download", ok |-> FALSE]>>
    /\ Len(steps[pending[2]]) = 4
    /\ RowOf(pending[2]).image_name = R2Urls[pending[2]]

\* Repeated runs of the batch job over a table with more pending rows than
\* one SELECT returns: RunRows rows, a LIMIT of RunLimit.
RunRows == 3
RunLimit == 2

\* What an image URL leads to: "u" is an image that downloads and can be
\* processed, "dead" a URL whose request fails every time.
Downloads(id) == RowOf(id).image_url # "dead"

InitBatchRuns ==
    /\ InitDbProcs /\ ScraperIdle /\ InstaIdle /\ LectoIdle /\ InitBucket
    /\ ShopIdle /\ JsonIdle
    /\ PageIdle
    /\ \E cols \in [1..RunRows -> [image_url : {"", "u", "dead"},
                                   image_name : {"", "old"}]] :
          articles = {StoredRow(i, cols[i].image_url, cols[i].image_name) :
                         i \in 1..RunRows}
    /\ nextId = RunRows + 1
    /\ bpc = "fetch"
    /\ pending = <<>>
    /\ bidx = 0
    /\ attempt = 0
    /\ steps = [i \in 1..RunRows |-> <<>>]

\* The script is started again after a run has ended.
RunAgain ==
    /\ bpc = "done"
    /\ bpc' = "fetch"
    /\ pending' = <<>>
    /\ bidx' = 0
    /\ attempt' = 0
    /\ steps' = [i \in 1..RunRows |-> <<>>]
    /\ UNCHANGED <<articles, bucket, batchRest>>

\* The runs in which nothing fails but the requests for the dead URLs.
NextBatchRuns ==
    \/ FetchRows(SelectPending(articles, RunLimit))
    \/ Download(Downloads(pending[bidx]))
    \/ Watermark(TRUE)
    \/ Upload(TRUE)
    \/ UpdateDb(TRUE)
    \/ RunAgain

SpecBatchRuns ==
    InitBatchRuns /\ [][NextBatchRuns]_vars /\ WF_vars(NextBatchRuns)

\* C30: under repeated runs every pending row whose processing would
\* succeed eventually has its image_name, however many other pending rows
\* keep failing.
C30_GoodRowsEventuallyDone ==
    \A id \in 1..RunRows :
        (RowOf(id).image_url = "u") ~> (RowOf(id).image_name # "")

(***************************************************************************)
(* The translation jobs: lecto_localize and                                *)
(* update_articles_image_and_translate                                     *)
(***************************************************************************)

\* Rows in the articles table when a translation job starts.
LectoRows == 2

LectoScripts == {"lecto_localize", "update_articles"}

TARGET_LANGUAGES == <<"ko", "ja", "es", "id", "vi">>

\* translate 2 languages at a time
BATCH_SIZE == 2

\* LANGUAGES of update_articles_image_and_translate, as configured in the
\* environment (the default lists ten languages).
LANGUAGES == <<"en", "ko", "hi", "id">>

RECURSIVE Without(_, _)
\* [l for l in seq if l != x]
Without(seq, x) ==
    IF seq = <<>> THEN <<>>
    ELSE IF Head(seq) = x THEN Without(Tail(seq), x)
    ELSE <<Head(seq)>> \o Without(Tail(seq), x)

\* The languages a job translates an article into.
TargetLangs(script, article) ==
    IF script = "lecto_localize" THEN TARGET_LANGUAGES
    ELSE Without(LANGUAGES, article.lang)

\* langs[i:i + BATCH_SIZE], with i counted from 1.
LangBatch(langs, i) ==
    SubSeq(langs, i,
           IF i + BATCH_SIZE - 1 <= Len(langs)
           THEN i + BATCH_SIZE - 1 ELSE Len(langs))

\* A row as a scraper stored it (lang "en") or as an earlier translation
\* left it.
EnglishRow(id, title, published, lang) ==
    [NewRow(Params([category |-> "kdrama", title |-> title,
                    link |-> Url(LinkNames[id], ""), summary |-> <<"B">>,
                    image_url |-> "u"]), id, NOW(id))
     EXCEPT !.is_published = published, !.lang = lang]

\* The row insert_translated_article writes for an original and a language.
TranslatedRow(original, lang, id) ==
    [original EXCEPT !.id = id, !.lang = lang,
                     !.title = <<"T", lang>>, !.summary = <<"B", lang>>,
                     !.is_published = 0, !.uuid = "UUID()"]

\* The row update_articles_image_and_translate inserts: only title, summary,
\* image_name, image_url, lang and is_published are in its column list, so
\* link and category are NULL and created_at has no value (0).
InsertedTranslation(article, new_filename, lang, id) ==
    [NewRow(Params([link |-> Url(NULL, "")]), id, NOW(id))
     EXCEPT !.created_at = 0,
            !.title = <<"T", lang>>, !.summary = <<"B", lang>>,
            !.image_name = new_filename, !.image_url = article.image_url,
            !.lang = lang, !.is_published = 0]

\* f"{sanitized}{ext}" of a row's title and image URL.
NewFilename(article) == <<"file", article.id>>

\* SELECT * FROM articles WHERE lang = 'en' AND is_published = 0
Unpublished(tbl) == {r \in tbl : r.lang = "en" /\ r.is_published = 0}

\* SELECT * FROM articles WHERE image_url IS NOT NULL
WithImageUrl(tbl) == {r \in tbl : r.image_url # NULL}

\* The rows of a set as a sequence in id order.
RowsById(rows) ==
    LET ids == SortedIds({r.id : r \in rows})
    IN [i \in 1..Len(ids) |-> CHOOSE r \in rows : r.id = ids[i]]

\* The inserts of one language batch, in the order of the translations:
\* a language in inserted gets its row and the next AUTO_INCREMENT id.
RECURSIVE InsertBatch(_, _, _, _, _, _)
InsertBatch(script, tbl, id, original, langs, inserted) ==
    IF langs = <<>> THEN [tbl |-> tbl, id |-> id]
    ELSE IF Head(langs) \in inserted
    THEN InsertBatch(script,
                     tbl \cup {IF script = "lecto_localize"
                               THEN TranslatedRow(original, Head(langs), id)
                               ELSE InsertedTranslation(original,
                                        NewFilename(original), Head(langs), id)},
                     id + 1, original, Tail(langs), inserted)
    ELSE InsertBatch(script, tbl, id, original, Tail(langs), inserted)

\* UPDATE articles SET is_published = 1 WHERE lang = 'en' AND is_published = 0
mark_articles_as_published(tbl) ==
    {IF r \in Unpublished(tbl) THEN [r EXCEPT !.is_published = 1] ELSE r :
        r \in tbl}

InitLecto ==
    /\ InitDbProcs
    /\ nextId = LectoRows + 1
    /\ ScraperIdle /\ InstaIdle /\ BatchIdle /\ InitBucket /\ ShopIdle /\ JsonIdle
    /\ PageIdle
    /\ lscript \in LectoScripts
    /\ apiKey \in BOOLEAN
    /\ \E cols \in [1..LectoRows -> [title : {<<Blank>>, <<"T">>},
                                     published : {0, 1},
                                     lang : {"en", "ko"}]] :
          articles = {EnglishRow(i, cols[i].title, cols[i].published,
                                 cols[i].lang) : i \in 1..LectoRows}
    /\ lpc = "fetch"
    /\ fetched = <<>>
    /\ lidx = 0
    /\ lbatch = 0
    /\ lmarked = {}
    /\ lreturned = {}
    /\ lscraped = {}

lectoRest == <<dbpc, dbrec, txn, calls, upsertOk, checkedOut, scraperVars, instaVars,
               bucket, batchVars, lscript, apiKey, shopVars, jsonVars, pageVars,
               lscraped>>

\* process_articles: the SELECT.  lecto_localize returns when there are no
\* rows; in both jobs an exception of the SELECT ends the job.
FetchArticles(ok) ==
    /\ lpc = "fetch"
    /\ fetched' = IF ~ok THEN <<>>
                  ELSE IF lscript = "lecto_localize"
                  THEN RowsById(Unpublished(articles))
                  ELSE RowsById(WithImageUrl(articles))
    /\ IF fetched' # <<>>
       THEN /\ lpc' = IF lscript = "lecto_localize" THEN "translate"
                      ELSE "image"
            /\ lidx' = 1 /\ lbatch' = 1
       ELSE /\ lpc' = IF ok THEN "done" ELSE "db_error"
            /\ lidx' = 0 /\ lbatch' = 0
    /\ UNCHANGED <<articles, nextId, lmarked, lreturned, lectoRest>>

\* The for loop over the articles goes on; after the last article
\* lecto_localize marks the English rows and update_articles is finished.
NextLectoArticle ==
    /\ lbatch' = 1
    /\ lidx' = lidx + 1
    /\ lpc' = IF lidx < Len(fetched)
              THEN (IF lscript = "lecto_localize" THEN "translate"
                    ELSE "image")
              ELSE (IF lscript = "lecto_localize" THEN "mark" ELSE "done")

\* An article whose title is blank is skipped.
SkipArticle ==
    /\ lpc = "translate"
    /\ lscript = "lecto_localize"
    /\ Strip(fetched[lidx].title) = <<>>
    /\ NextLectoArticle
    /\ UNCHANGED <<articles, nextId, fetched, lmarked, lreturned, lectoRest>>

\* update_articles: download the image unless the file exists, then
\* UPDATE articles SET image_name; a failed download or UPDATE skips the
\* article.
UpdateImageName(downloaded, updated) ==
    /\ lpc = "image"
    /\ IF downloaded /\ updated
       THEN /\ articles' =
                  {IF r.id = fetched[lidx].id
                   THEN [r EXCEPT !.image_name = NewFilename(fetched[lidx])]
                   ELSE r : r \in articles}
            /\ lpc' = "translate"
            /\ UNCHANGED <<lidx, lbatch>>
       ELSE /\ UNCHANGED articles
            /\ NextLectoArticle
    /\ UNCHANGED <<nextId, fetched, lmarked, lreturned, lectoRest>>

\* One language batch of an article: the translation call returns texts
\* for the languages in returned (none when the call fails), and the
\* insert succeeds for the languages in inserted; a failed insert is
\* logged (the link of a lecto_localize row repeats its original's, so the
\* insert fails wherever link is a unique key).
TranslateBatch(returned, inserted) ==
    /\ lpc = "translate"
    /\ lscript = "lecto_localize" => Strip(fetched[lidx].title) # <<>>
    /\ lscript = "update_articles" => apiKey
    /\ LET langs == TargetLangs(lscript, fetched[lidx])
           batch == LangBatch(langs, lbatch)
           res == InsertBatch(lscript, articles, nextId, fetched[lidx],
                              batch, inserted)
       IN /\ returned \subseteq {batch[i] : i \in 1..Len(batch)}
          /\ ~apiKey => returned = {}
          /\ inserted \subseteq returned
          /\ articles' = res.tbl /\ nextId' = res.id
          /\ lreturned' = lreturned \cup
                            {<<fetched[lidx].id, l>> : l \in returned}
          /\ IF lbatch + BATCH_SIZE <= Len(langs)
             THEN lbatch' = lbatch + BATCH_SIZE /\ UNCHANGED <<lidx, lpc>>
             ELSE NextLectoArticle
    /\ UNCHANGED <<fetched, lmarked, lectoRest>>

\* lecto_translate_batch raises RuntimeError("LECTO_API_KEY not set"):
\* nothing in process_articles catches it.
TranslateRaises ==
    /\ lpc = "translate"
    /\ lscript = "update_articles"
    /\ ~apiKey
    /\ lpc' = "translate_error"
    /\ UNCHANGED <<articles, nextId, fetched, lidx, lbatch, lmarked,
                   lreturned, lectoRest>>

\* db_connect() raises inside insert_translated_article: the exception
\* leaves process_articles.
LectoCrash ==
    /\ lpc = "translate"
    /\ lscript = "lecto_localize"
    /\ Strip(fetched[lidx].title) # <<>>
    /\ lpc' = "db_error"
    /\ UNCHANGED <<articles, nextId, fetched, lidx, lbatch, lmarked,
                   lreturned, lectoRest>>

\* mark_articles_as_published(); its exceptions are logged and dropped.
MarkPublished(ok) ==
    /\ lpc = "mark"
    /\ articles' = IF ok THEN mark_articles_as_published(articles) ELSE articles
    /\ lmarked' = IF ok THEN {r.id : r \in Unpublished(articles)} ELSE lmarked
    /\ lpc' = "done"
    /\ UNCHANGED <<nextId, fetched, lidx, lbatch, lreturned, lectoRest>>

\* The languages of the batch the job is about to request.
BatchLangs ==
    IF lpc = "translate"
    THEN LET batch == LangBatch(TargetLangs(lscript, fetched[lidx]), lbatch)
         IN {batch[i] : i \in 1..Len(batch)}
    ELSE {}

NextLecto ==
    \/ \E ok \in BOOLEAN : FetchArticles(ok)
    \/ SkipArticle
    \/ \E downloaded \in BOOLEAN, updated \in BOOLEAN :
          UpdateImageName(downloaded, updated)
    \/ \E returned \in SUBSET BatchLangs :
          \E inserted \in SUBSET returned :
              TranslateBatch(returned, inserted)
    \/ TranslateRaises
    \/ LectoCrash
    \/ \E ok \in BOOLEAN : MarkPublished(ok)

SpecLecto == InitLecto /\ [][NextLecto]_vars

\* The link of an article a scraper finds while the job runs.
ScrapedLink == Url("n", "")

\* A scraper's db_upsert of a new article commits while the job is between
\* its SELECT and its UPDATE: the row takes the column defaults lang 'en'
\* and is_published 0.
ScraperInsert ==
    /\ lpc \in {"translate", "image", "mark"}
    /\ RowsOf(articles, ScrapedLink) = {}
    /\ articles' = UPSERT_SQL(articles,
                       Params([category |-> "kdrama", title |-> <<"T">>,
                               link |-> ScrapedLink, summary |-> <<"B">>,
                               image_url |-> "u"]),
                       nextId, NOW(nextId))
    /\ nextId' = nextId + 1
    /\ lscraped' = lscraped \cup {nextId}
    /\ UNCHANGED <<lpc, fetched, lidx, lbatch, lmarked, lreturned, dbpc,
                   dbrec, txn, calls, upsertOk, checkedOut, scraperVars,
                   instaVars, bucket, batchVars, lscript, apiKey, shopVars,
                   jsonVars, pageVars>>

NextLectoScraper ==
    \/ NextLecto
    \/ ScraperInsert

SpecLectoScraper == InitLecto /\ [][NextLectoScraper]_vars

\* The target languages for which a translated row of a link is stored.
TranslatedLangs(link) ==
    {t.lang : t \in {x \in articles : x.link = link /\ x.lang # "en"}}

\* C10: every English row the job has set to is_published = 1 has a
\* translated row for every target language.
C10_PublishedOnlyIfTranslated ==
    \A r \in articles :
        r.id \in lmarked =>
            \A i \in 1..Len(TARGET_LANGUAGES) :
                TARGET_LANGUAGES[i] \in TranslatedLangs(r.link)

\* The rows a translation job has inserted.
JobRows == {t \in articles : t.id > LectoRows}

\* C11: every row a translation job inserted has the link and image_name
\* of a selected source row and another lang, and that source row was an
\* English row with is_published = 0 when it was selected; when the job is
\* done, a translated row exists for every selected article and language
\* for which the service returned texts.
C11_TranslatedRows ==
    /\ \A t \in JobRows :
          \E i \in 1..Len(fetched) :
              /\ fetched[i].lang = "en" /\ fetched[i].is_published = 0
              /\ t.link = fetched[i].link
              /\ t.lang # fetched[i].lang
              /\ \E src \in articles :
                    src.id = fetched[i].id /\ src.image_name = t.image_name
    /\ lpc = "done" =>
          \A p \in lreturned :
              \E t \in JobRows, i \in 1..Len(fetched) :
                  /\ fetched[i].id = p[1]
                  /\ t.lang = p[2]
                  /\ t.link = fetched[i].link

\* C17: no translation job is ever left by an exception of its translation
\* call.
C17_TranslateFailureNoAbort == lpc # "translate_error"

\* C27: when the job has ended, an article a scraper inserted during the
\* run has not been marked published by it and is still unpublished, so
\* that the next run selects it.
C27_LateArticleKept ==
    lpc = "done" =>
       \A id \in lscraped :
           /\ id \notin lmarked
           /\ \E r \in Unpublished(articles) : r.id = id

(***************************************************************************)
(* The shop scripts: cuelinks.py and alistore_shop.py                      *)
(***************************************************************************)
MaxProducts == 3

ShopScripts == {"cuelinks", "alistore_shop"}

\* What a feed entry or an offer gives as its link: nothing, a plain URL or
\* a redirect URL carrying the destination in its ulp/url/redirect parameter.
FeedLinks == {NULL, "plain", "redirect"}

\* decode_ulp_from_url: <<affiliate_url, original_url>> of a feed link.
decode_ulp_from_url(maybe_redirect_url) ==
    CASE maybe_redirect_url = NULL       -> <<NULL, NULL>>
      [] maybe_redirect_url = "redirect" -> <<maybe_redirect_url, "orig">>
      [] OTHER                           -> <<maybe_redirect_url, NULL>>

\* parse_atom_feed / parse_yml_feed: the product of a feed entry.
FeedProduct(id, link) ==
    [id |-> id, url |-> link,
     original_url |-> decode_ulp_from_url(link)[2],
     affiliate_url |-> decode_ulp_from_url(link)[1]]

\* extract_product_from_offer: the product of a Cuelinks offer; its url is
\* product_url, and it has no affiliate_url yet.
extract_product_from_offer(id, product_url) ==
    [id |-> id, url |-> product_url, original_url |-> NULL,
     affiliate_url |-> NULL]

\* What the get_link request of cuelinks.py can come to.
LinkOutcomes == {"link", "no_link", "http_error", "transport_error",
                 "bad_json"}

\* get_affiliate_link_for_url: requests.post and resp.json() stand outside
\* the try, which catches only the HTTPError of raise_for_status.
LinkRaises(outcome) == outcome \in {"transport_error", "bad_json"}

get_affiliate_link_for_url(outcome) ==
    IF outcome = "link" THEN "aff" ELSE NULL

\* run: the target of the deeplink, and whether one is asked for.
Target(p) == IF p.original_url # NULL THEN p.original_url ELSE p.url

NeedsDeeplink(p, tok) ==
    /\ p.affiliate_url = NULL
    /\ tok
    /\ Target(p) # NULL

\* run: the deeplink of a product after the first call (dl1), the token
\* refresh and the second call (dl2); NULL stands for None.
Deeplink(dl1, refreshed, dl2) ==
    IF dl1 # NULL THEN dl1
    ELSE IF refreshed THEN dl2 ELSE NULL

InitShop ==
    /\ InitTable /\ InitDbProcs /\ ScraperIdle /\ InstaIdle /\ BatchIdle
    /\ LectoIdle /\ InitBucket /\ JsonIdle
    /\ PageIdle
    /\ shop \in ShopScripts
    /\ token \in (IF shop = "alistore_shop" THEN BOOLEAN ELSE {FALSE})
    /\ \E links \in [1..MaxProducts -> FeedLinks] :
          products =
             [i \in 1..MaxProducts |->
                 IF shop = "alistore_shop" THEN FeedProduct(i, links[i])
                 ELSE extract_product_from_offer(i, links[i])]
    /\ shpc = "loop"
    /\ pidx = 1
    /\ enriched = <<>>
    /\ written = <<>>
    /\ dlFailed = {}

shopRest == <<articles, dbVars, scraperVars, instaVars, bucket, batchVars,
              lectoVars, jsonVars, pageVars>>

\* The for loop goes to the next product, or is over.
NextProduct ==
    /\ pidx' = pidx + 1
    /\ shpc' = IF pidx < Len(products) THEN "loop"
               ELSE IF shop = "cuelinks" THEN "save" ELSE "done"

\* cuelinks.fetch_and_build: the body of the loop over unique.
EnrichProduct(outcome) ==
    /\ shop = "cuelinks"
    /\ shpc = "loop"
    /\ LET p == products[pidx]
           dest == p.url
           aff == get_affiliate_link_for_url(outcome)
       IN  IF dest # NULL
           THEN IF LinkRaises(outcome)
                THEN /\ shpc' = "raised"
                     /\ dlFailed' = dlFailed \cup {p.id}
                     /\ UNCHANGED <<products, pidx, enriched>>
                ELSE /\ products' =
                          [products EXCEPT ![pidx].affiliate_url =
                              IF aff # NULL THEN aff ELSE dest]
                     /\ enriched' = Append(enriched, products'[pidx])
                     /\ dlFailed' = IF aff = NULL THEN dlFailed \cup {p.id}
                                    ELSE dlFailed
                     /\ NextProduct
           ELSE /\ enriched' = Append(enriched, p)
                /\ UNCHANGED <<products, dlFailed>>
                /\ NextProduct
    /\ UNCHANGED <<shop, token, written, shopRest>>

\* cuelinks.fetch_and_build: save_json, save_csv and render_html.
SaveOutputs ==
    /\ shop = "cuelinks"
    /\ shpc = "save"
    /\ written' = enriched
    /\ shpc' = "done"
    /\ UNCHANGED <<shop, token, products, pidx, enriched, dlFailed, shopRest>>

\* alistore_shop.run: the body of the loop over filtered.  dl1 and dl2 are
\* what create_admitad_deeplink returns, refreshed whether get_admitad_token
\* returns a token, ok what upsert_offer_and_images returns.
IngestProduct(dl1, refreshed, dl2, ok) ==
    /\ shop = "alistore_shop"
    /\ shpc = "loop"
    /\ LET p == products[pidx]
           dl == Deeplink(dl1, refreshed, dl2)
       IN  /\ IF NeedsDeeplink(p, token)
              THEN /\ products' =
                         [products EXCEPT ![pidx].affiliate_url =
                             IF dl # NULL THEN dl ELSE p.affiliate_url]
                   /\ token' = IF dl1 # NULL THEN token ELSE refreshed
                   /\ dlFailed' = IF dl = NULL THEN dlFailed \cup {p.id}
                                  ELSE dlFailed
              ELSE UNCHANGED <<products, token, dlFailed>>
           /\ written' = IF ok THEN Append(written, products'[pidx])
                         ELSE written
    /\ NextProduct
    /\ UNCHANGED <<shop, enriched, shopRest>>

NextShop ==
    \/ \E outcome \in LinkOutcomes : EnrichProduct(outcome)
    \/ SaveOutputs
    \/ \E dl1, dl2 \in {NULL, "dl"}, refreshed, ok \in BOOLEAN :
          IngestProduct(dl1, refreshed, dl2, ok)

SpecShop == InitShop /\ [][NextShop]_vars

ShopEnded == shpc \in {"done", "raised"}

WrittenIds == {written[k].id : k \in 1..Len(written)}

\* C18: when a shop script has ended, every product whose deeplink
\* generation failed is written out with its destination URL unchanged and
\* no other link in its place, and every product after it is written out.
C18_DeeplinkFailurePassThrough ==
    ShopEnded =>
       \A i \in dlFailed :
           /\ \E k \in 1..Len(written) :
                 /\ written[k].id = i
                 /\ written[k].url = products[i].url
                 /\ written[k].affiliate_url \in {NULL, products[i].url}
           /\ \A j \in (i + 1)..Len(products) : j \in WrittenIds

(***************************************************************************)
(* The JSON output of the merging scrapers: knews and kareboo              *)
(***************************************************************************)
MaxRunRecords == 3
MaxPriorRecords == 2

\* A record of the JSON file.  Every record gets a fresh uuid4: the records
\* of this run carry their position in the run, those of earlier runs 0.
JsonRecord(link, uuid) == [link |-> link, uuid |-> uuid]

RunLinks == {"a", "c"}
PriorLinks == {"a", "b"}

SeqsUpTo(S, n) == UNION {[1..k -> S] : k \in 0..n}

LinksOf(recs) == {recs[k].link : k \in 1..Len(recs)}

\* What a run can have extracted: seen_links is reset for every listing
\* page, so one link may be extracted more than once.
RunResults ==
    {[i \in 1..Len(ls) |-> JsonRecord(ls[i], i)] :
        ls \in SeqsUpTo(RunLinks, MaxRunRecords)}

\* A file an earlier run wrote: a list with one record per link.
WrittenLists ==
    {recs \in {[i \in 1..Len(ls) |-> JsonRecord(ls[i], 0)] :
                  ls \in SeqsUpTo(PriorLinks, MaxPriorRecords)} :
        Cardinality(LinksOf(recs)) = Len(recs)}

\* OUTPUT_JSON before the run: absent, a list an earlier run wrote, or a
\* file that is not such a list: text that is not JSON, bytes open/read
\* cannot decode, or JSON that is not a list.
CorruptKinds == {"malformed", "undecodable", "object"}

PriorFiles ==
    {JsonFile("absent", <<>>)}
       \cup {JsonFile("list", recs) : recs \in WrittenLists}
       \cup {JsonFile(k, <<>>) : k \in CorruptKinds}

\* json.load(f) of the prior file: "JSONDecodeError", "Exception", or the
\* value read.
JsonLoad(file) ==
    CASE file.kind \in {"malformed", "truncated"} -> "JSONDecodeError"
      [] file.kind = "undecodable"                -> "Exception"
      [] OTHER                                    -> "value"

InitJson ==
    /\ InitTable /\ InitDbProcs /\ ScraperIdle /\ InstaIdle /\ BatchIdle
    /\ LectoIdle /\ InitBucket /\ ShopIdle /\ PageIdle
    /\ jpc = "load"
    /\ priorJson \in PriorFiles
    /\ outputJson = priorJson
    /\ backups = {}
    /\ existing = [list |-> TRUE, items |-> <<>>]
    /\ results_for_json \in RunResults

jsonRest == <<articles, dbVars, scraperVars, instaVars, bucket, batchVars,
              lectoVars, shopVars, priorJson, results_for_json, pageVars>>

\* if os.path.exists(OUTPUT_JSON): existing = json.load(f), with its two
\* except clauses.
LoadExisting ==
    /\ jpc = "load"
    /\ IF outputJson.kind = "absent"
       THEN jpc' = "write" /\ UNCHANGED existing
       ELSE CASE JsonLoad(outputJson) = "JSONDecodeError" ->
                    jpc' = "backup" /\ UNCHANGED existing
              [] JsonLoad(outputJson) = "Exception" ->
                    /\ jpc' = "write"
                    /\ existing' = [list |-> TRUE, items |-> <<>>]
              [] OTHER ->
                    /\ jpc' = "write"
                    /\ existing' = [list |-> outputJson.kind = "list",
                                    items |-> outputJson.records]
    /\ UNCHANGED <<outputJson, backups, jsonRest>>

\* os.replace(OUTPUT_JSON, bak), and its except clause; existing = [].
Backup(ok) ==
    /\ jpc = "backup"
    /\ IF ok
       THEN /\ backups' = backups \cup {outputJson}
            /\ outputJson' = JsonFile("absent", <<>>)
       ELSE UNCHANGED <<backups, outputJson>>
    /\ existing' = [list |-> TRUE, items |-> <<>>]
    /\ jpc' = "write"
    /\ UNCHANGED jsonRest

\* The merge and open(OUTPUT_JSON, "w") / json.dump(merged_list, f), with
\* its except clause: a failing open leaves the file, a failing dump a
\* truncated one.
WriteMerged(outcome) ==
    /\ jpc = "write"
    /\ outputJson' =
          CASE outcome = "ok" ->
                  JsonFile("list", MergedList(existing, results_for_json))
            [] outcome = "open_failed" -> outputJson
            [] OTHER -> JsonFile("truncated", <<>>)
    /\ jpc' = IF outcome = "ok" THEN "written" ELSE "write_failed"
    /\ UNCHANGED <<existing, backups, jsonRest>>

NextJson ==
    \/ LoadExisting
    \/ \E ok \in BOOLEAN : Backup(ok)
    \/ \E outcome \in WriteOutcomes : WriteMerged(outcome)

SpecJson == InitJson /\ [][NextJson]_vars

\* C19: a prior file that is not a list of records is only ever replaced
\* by the run's output after it was moved to a backup file.
C19_CorruptFileBackedUp ==
    (priorJson.kind \in CorruptKinds /\ outputJson # priorJson)
       => priorJson \in backups

JsonRunEnded == jpc \in {"written", "write_failed"}

OnePerLink(recs) == Cardinality(LinksOf(recs)) = Len(recs)

InSeq(rec, recs) == \E k \in 1..Len(recs) : recs[k] = rec

\* The last record the run extracted for a link.
LastExtracted(rec) ==
    \E i \in 1..Len(results_for_json) :
        /\ results_for_json[i] = rec
        /\ \A j \in (i + 1)..Len(results_for_json) :
              results_for_json[j].link # rec.link

\* A record of the prior file whose link the run did not extract.
PriorKept(rec) ==
    /\ priorJson.kind = "list"
    /\ InSeq(rec, priorJson.records)
    /\ rec.link \notin LinksOf(results_for_json)

\* C20 as stated: after a run the file holds one record per link, every
\* record extracted in the run and every prior record whose link the run
\* did not extract.
C20_Original ==
    JsonRunEnded =>
       /\ outputJson.kind = "list"
       /\ OnePerLink(outputJson.records)
       /\ \A i \in 1..Len(results_for_json) :
             InSeq(results_for_json[i], outputJson.records)
       /\ \A k \in 1..Len(priorJson.records) :
             PriorKept(priorJson.records[k])
                => InSeq(priorJson.records[k], outputJson.records)

\* C20: after a run that wrote its output, the file holds one record per
\* link, and its records are exactly the last record extracted in the run
\* for each extracted link and the prior records whose link the run did not
\* extract, unchanged.
C20_MergedOutput ==
    jpc = "written" =>
       /\ outputJson.kind = "list"
       /\ OnePerLink(outputJson.records)
       /\ \A k \in 1..Len(outputJson.records) :
             \/ LastExtracted(outputJson.records[k])
             \/ PriorKept(outputJson.records[k])
       /\ \A i \in 1..Len(results_for_json) :
             LastExtracted(results_for_json[i])
                => InSeq(results_for_json[i], outputJson.records)
       /\ \A k \in 1..Len(priorJson.records) :
             PriorKept(priorJson.records[k])
                => InSeq(priorJson.records[k], outputJson.records)

\* A written merge that kept a prior record, replaced another and dropped
\* an earlier record of the run for a link extracted twice.
C20_Witness ==
    /\ jpc = "written"
    /\ \E k \in 1..Len(priorJson.records) :
          PriorKept(priorJson.records[k])
    /\ \E k \in 1..Len(priorJson.records) :
          priorJson.records[k].link \in LinksOf(results_for_json)
    /\ \E i \in 1..Len(results_for_json) :
          ~LastExtracted(results_for_json[i])

(***************************************************************************)
(* The candidates of a listing page: kdramastars and koreatech             *)
(***************************************************************************)
MaxAnchors == 3
FillerAnchors == 7

AnchorSites == {"kdramastars", "koreatech"}

\* An href attribute: its netloc ("" when relative) and what the heuristics
\* look at in its path: an /articles/ segment, a /20xx/ segment, and the
\* last segment's hyphen and length; n tells paths apart.
Href(netloc, inArticles, year, hyphen, lastLen, n) ==
    [netloc |-> netloc, articles |-> inArticles, year |-> year,
     hyphen |-> hyphen, lastLen |-> lastLen, n |-> n]

\* An element without href attribute: a.href is "".
NoHref == Href("", FALSE, FALSE, FALSE, 0, 0)

\* The text of an anchor: its length, and whether it holds one of the skip
\* words of find_article_links.
Text(len, skip) == [len |-> len, skip |-> skip]

Element(tag, href, text) == [tag |-> tag, href |-> href, text |-> text]

\* urljoin(base_url, href) / a.href: a relative href is on the site.
Urljoin(href) == [href EXCEPT !.netloc = IF @ = "" THEN "site" ELSE @]

looks_like_kds_article(href) ==
    \/ href.articles
    \/ href.year
    \/ href.hyphen /\ href.lastLen > 4

looks_like_article_anchor(a) ==
    /\ a.text.len >= 18
    /\ a.href # NoHref
    /\ a.href.netloc # "other"

\* The elements listing pages are made of.
ArticleOne == Href("site", TRUE, FALSE, FALSE, 6, 1)
ArticleTwo == Href("", FALSE, TRUE, TRUE, 30, 2)

PageElements ==
    {Element("a", ArticleOne, Text(40, FALSE)),
     Element("a", ArticleOne, Text(0, FALSE)),
     Element("a", [ArticleOne EXCEPT !.netloc = ""], Text(40, FALSE)),
     Element("a", ArticleTwo, Text(40, FALSE)),
     Element("a", ArticleTwo, Text(19, FALSE)),
     Element("a", Href("site", FALSE, FALSE, TRUE, 25, 3), Text(40, TRUE)),
     Element("a", Href("other", FALSE, FALSE, FALSE, 5, 4), Text(40, FALSE)),
     Element("a", NoHref, Text(40, FALSE)),
     Element("link", Href("site", TRUE, FALSE, FALSE, 6, 5), Text(0, FALSE))}

\* A navigation anchor no heuristic takes for an article.
Filler ==
    Element("a", Href("other", FALSE, FALSE, FALSE, 4, 0), Text(4, FALSE))

ListingPages ==
    {[i \in 1..(FillerAnchors + Len(es)) |->
         IF i <= FillerAnchors THEN Filler ELSE es[i - FillerAnchors]] :
        es \in SeqsUpTo(PageElements, MaxAnchors)}

Anchors(page) == SelectSeq(page, LAMBDA e : e.tag = "a" /\ e.href # NoHref)

\* if href not in seen: seen.add(href); candidates.append(...)
QueueAlways(cands, href) == Append(cands, href)

QueueNew(cands, href) ==
    IF \E k \in 1..Len(cands) : cands[k] = href THEN cands
    ELSE Append(cands, href)

\* kdramastars: the filter loop over the anchors.
RECURSIVE KdsFilter(_, _)
KdsFilter(pairs, cands) ==
    IF pairs = <<>> THEN cands
    ELSE LET a == Head(pairs)
             href == Urljoin(a.href)
         IN  KdsFilter(Tail(pairs),
                 IF a.text.len >= 8 /\ looks_like_kds_article(href)
                 THEN QueueNew(cands, href) ELSE cands)

\* kdramastars: the regex fallback over every href of the raw HTML.
RECURSIVE KdsFallback(_, _)
KdsFallback(elems, cands) ==
    IF elems = <<>> THEN cands
    ELSE LET full == Urljoin(Head(elems).href)
         IN  KdsFallback(Tail(elems),
                 IF looks_like_kds_article(full)
                 THEN QueueNew(cands, full) ELSE cands)

KdsCandidates(page) ==
    LET cands == KdsFilter(Anchors(page), <<>>)
    IN  IF cands # <<>> THEN cands
        ELSE KdsFallback(SelectSeq(page, LAMBDA e : e.href # NoHref), <<>>)

\* koreatech: find_article_links.
RECURSIVE find_article_links(_, _)
find_article_links(anchors, links) ==
    IF anchors = <<>> THEN links
    ELSE LET a == Head(anchors)
         IN  find_article_links(Tail(anchors),
                 IF /\ looks_like_article_anchor(a)
                    /\ ~a.text.skip
                    /\ a.text.len >= 20
                 THEN QueueNew(links, Urljoin(a.href)) ELSE links)

InitAnchors ==
    /\ InitTable /\ InitDbProcs /\ ScraperIdle /\ InstaIdle /\ BatchIdle
    /\ LectoIdle /\ InitBucket /\ ShopIdle /\ JsonIdle
    /\ ppc = "page"
    /\ psite \in AnchorSites
    /\ html \in ListingPages
    /\ queued = <<>>
    /\ image = ""

pageRest == <<articles, dbVars, scraperVars, instaVars, bucket, batchVars,
              lectoVars, shopVars, jsonVars>>

\* The candidates of the listing page are queued.
QueueCandidates ==
    /\ ppc = "page"
    /\ psite \in AnchorSites
    /\ queued' = IF psite = "kdramastars" THEN KdsCandidates(html)
                 ELSE find_article_links(Anchors(html), <<>>)
    /\ ppc' = "queued"
    /\ UNCHANGED <<psite, html, image, pageRest>>

SpecAnchors == InitAnchors /\ [][QueueCandidates]_vars

\* The anchors the site's heuristic function takes for article links.
Matching ==
    {i \in 1..Len(html) :
        /\ html[i].tag = "a"
        /\ html[i].href # NoHref
        /\ IF psite = "kdramastars"
           THEN looks_like_kds_article(Urljoin(html[i].href))
           ELSE looks_like_article_anchor(html[i])}

\* The anchors that pass the heuristic and the text checks of the loop.
Passing ==
    {i \in Matching :
        IF psite = "kdramastars" THEN html[i].text.len >= 8
        ELSE ~html[i].text.skip /\ html[i].text.len >= 20}

UrlsOf(I) == {Urljoin(html[i].href) : i \in I}

QueuedUrls == {queued[k] : k \in 1..Len(queued)}

OgTags == {[present |-> FALSE, content |-> ""],
           [present |-> TRUE, content |-> ""],
           [present |-> TRUE, content |-> "https://x/y.jpg"]}

\* The img element in the article's content: none, or one that holds its
\* URL in src or in data-src.
ImgTags == {"none", "src", "data-src"}

ArticleMarkup == [og : OgTags, img : ImgTags]

\* Scrapers whose image fallback reads data-src as well as src.
ReadsDataSrc == {"kheralds", "kpopmap", "kareboo", "soomi"}

\* extract_image / extract_main_image / extract_image_from_article of the
\* Playwright scrapers; the requests scrapers select an img of the content
\* and never read the meta tag.
ExtractImage(s, page) ==
    IF s \in RequestsScrapers
    THEN IF page.img # "none" THEN "/img.jpg" ELSE ""
    ELSE IF page.og.present /\ page.og.content # "" THEN page.og.content
    ELSE IF page.img = "src" THEN "/img.jpg"
    ELSE IF page.img = "data-src" /\ s \in ReadsDataSrc THEN "/img.jpg"
    ELSE ""

InitImage ==
    /\ InitTable /\ InitDbProcs /\ ScraperIdle /\ InstaIdle /\ BatchIdle
    /\ LectoIdle /\ InitBucket /\ ShopIdle /\ JsonIdle
    /\ ppc = "page"
    /\ psite \in Scrapers
    /\ html \in ArticleMarkup
    /\ queued = <<>>
    /\ image = ""

\* image_url = extract_image(art_html) or ""
ExtractImageUrl ==
    /\ ppc = "page"
    /\ psite \in Scrapers
    /\ image' = ExtractImage(psite, html)
    /\ ppc' = "extracted"
    /\ UNCHANGED <<psite, html, queued, pageRest>>

SpecImage == InitImage /\ [][ExtractImageUrl]_vars

\* C25: for a page with an og:image tag and no other image markup, the
\* image_url extracted is the content of the tag.
C25_OgImage ==
    (/\ ppc = "extracted"
     /\ html.og = [present |-> TRUE, content |-> "https://x/y.jpg"]
     /\ html.img = "none")
       => image = "https://x/y.jpg"

====
